---- MODULE Spec2Model ----
(***************************************************************************)
(* A model of css-querySelector-by-styles.js: the query parser             *)
(* (parseQuery, parseCSSRules), value normalisation (normalizeCSSValue),   *)
(* rule matching (elementMatchesRules) and the evaluator (executeQuery)    *)
(* over a small DOM tree.                                                  *)
(*                                                                         *)
(* A JavaScript string is modelled as a sequence of one-character strings, *)
(* so that trimming, splitting and scanning are computed character by      *)
(* character as the code computes them.                                    *)
(***************************************************************************)
EXTENDS Integers, Sequences, FiniteSets, TLC

VARIABLES
    pc,                      \* position of the running function
    query, root, findAll,    \* the arguments of the running call
    tag, style,              \* the DOM: every node's tag name and computed style
    parts,                   \* parseQuery: const parts = []
    i,                       \* parseQuery: let i = 0
    currentSelector,         \* parseQuery: let currentSelector = ''
    inRules,                 \* parseQuery: let inRules = false
    currentRules,            \* parseQuery: let currentRules = ''
    braceDepth,              \* parseQuery: let braceDepth = 0
    inQuotes,                \* parseQuery: let inQuotes = false
    quoteChar,               \* parseQuery: let quoteChar = ''
    partIndex,               \* executeQuery: the for loop's partIndex
    currentElements,         \* executeQuery: let currentElements = [root]
    previousFilterSelectors, \* executeQuery: let previousFilterSelectors = []
    result,                  \* what the call returned
    cssText,                 \* parseCSSRules: its argument rulesString
    cssRules,                \* parseCSSRules: const rules = {}
    target,                  \* elementMatchesRules: its argument element
    matched,                 \* what elementMatchesRules returned
    rawValue,                \* normalizeCSSValue: its argument value
    normalizedValue,         \* what normalizeCSSValue returned
    earlier                  \* the caller: the call before this one, once kept

scanVars == <<parts, i, currentSelector, inRules, currentRules, braceDepth,
              inQuotes, quoteChar>>
callVars == <<query, root, findAll>>
domVars  == <<tag, style>>
evalVars == <<partIndex, currentElements, previousFilterSelectors, result>>
ruleVars == <<cssText, cssRules, target, matched>>
normVars == <<rawValue, normalizedValue>>
vars     == <<pc, callVars, domVars, scanVars, evalVars, ruleVars, normVars,
              earlier>>

-----------------------------------------------------------------------------
(* Strings *)

\* the white space String.prototype.trim and the regular expression \s strip,
\* as far as the modelled alphabet has it
WhiteSpace == {" ", "\t", "\n"}

RECURSIVE TrimStart(_)
TrimStart(s) ==
    IF s = <<>> THEN s
    ELSE IF Head(s) \in WhiteSpace THEN TrimStart(Tail(s)) ELSE s

RECURSIVE TrimEnd(_)
TrimEnd(s) ==
    IF s = <<>> THEN s
    ELSE IF s[Len(s)] \in WhiteSpace THEN TrimEnd(SubSeq(s, 1, Len(s) - 1)) ELSE s

Trim(s) == TrimEnd(TrimStart(s))

EndsWith(s, c) == s # <<>> /\ s[Len(s)] = c

\* s.slice(0, -1)
SliceOffLast(s) == IF s = <<>> THEN s ELSE SubSeq(s, 1, Len(s) - 1)

-----------------------------------------------------------------------------
(* parseQuery *)

Filter     == "filter"
Descendant == "descendant"
Child      == "child"

PlainSelector(sel) == [type |-> "selector", selector |-> sel]

RuleSegment(sel, rel, rulesText) ==
    [type |-> "selector-with-rules", selector |-> sel,
     relationship |-> rel, rules |-> rulesText]

\* const spacesBeforeBrace = currentSelector.length - trimmedEnd.length
SpacesBeforeBrace(cs) == Len(cs) - Len(TrimEnd(cs))

\* the relationship of the block that opens after the accumulated text cs
Relationship(cs) ==
    IF EndsWith(Trim(cs), ">") THEN Child
    ELSE IF SpacesBeforeBrace(cs) = 1 THEN Descendant
    ELSE Filter

\* the selector stored for the block that opens after the accumulated text cs
SegmentSelector(cs) ==
    IF EndsWith(Trim(cs), ">") THEN Trim(SliceOffLast(Trim(cs)))
    ELSE Trim(cs)

ScanState ==
    [parts |-> parts, i |-> i, currentSelector |-> currentSelector,
     inRules |-> inRules, currentRules |-> currentRules,
     braceDepth |-> braceDepth, inQuotes |-> inQuotes, quoteChar |-> quoteChar]

\* the locals of parseQuery as it enters its loop
InitScan ==
    [parts |-> <<>>, i |-> 0, currentSelector |-> <<>>, inRules |-> FALSE,
     currentRules |-> <<>>, braceDepth |-> 0, inQuotes |-> FALSE,
     quoteChar |-> ""]

\* query[i - 1]; undefined when i = 0
PrevChar(q, s) == IF s.i = 0 THEN "undefined" ELSE q[s.i]

\* the branch of the loop body that tracks quotes, taken outside a rule block
\* when the character is a quote
ScanQuote(q, s, char) ==
    LET t == IF ~s.inQuotes
             THEN [s EXCEPT !.inQuotes = TRUE, !.quoteChar = char]
             ELSE IF char = s.quoteChar /\ PrevChar(q, s) # "\\"
                  THEN [s EXCEPT !.inQuotes = FALSE, !.quoteChar = ""]
                  ELSE s
    IN  [t EXCEPT !.currentSelector = Append(s.currentSelector, char),
                  !.i = s.i + 1]

\* a variant that emits the text before a rule block as a segment of its own
ScanSelectorSplitting(s, char) ==
    IF char = "{" /\ ~s.inQuotes
    THEN [s EXCEPT
            !.parts = (IF Trim(s.currentSelector) # <<>>
                       THEN Append(s.parts, PlainSelector(Trim(s.currentSelector)))
                       ELSE s.parts)
                      \o <<RuleSegment(<<>>, Relationship(s.currentSelector),
                                       <<>>)>>,
            !.currentSelector = <<>>,
            !.inRules = TRUE,
            !.braceDepth = 1,
            !.i = s.i + 1]
    ELSE [s EXCEPT !.currentSelector = Append(s.currentSelector, char),
                   !.i = s.i + 1]

\* a variant that opens a rule block without pushing its segment
ScanSelectorWithoutSegment(s, char) ==
    IF char = "{" /\ ~s.inQuotes
    THEN [s EXCEPT !.currentSelector = <<>>,
                   !.inRules = TRUE,
                   !.braceDepth = 1,
                   !.i = s.i + 1]
    ELSE [s EXCEPT !.currentSelector = Append(s.currentSelector, char),
                   !.i = s.i + 1]

\* the branch of the loop body taken outside a rule block
ScanSelector(s, char) ==
    IF char = "{" /\ ~s.inQuotes
    THEN [s EXCEPT
            !.parts = Append(s.parts,
                             RuleSegment(SegmentSelector(s.currentSelector),
                                         Relationship(s.currentSelector),
                                         <<>>)),
            !.currentSelector = <<>>,
            !.inRules = TRUE,
            !.braceDepth = 1,
            !.i = s.i + 1]
    ELSE [s EXCEPT !.currentSelector = Append(s.currentSelector, char),
                   !.i = s.i + 1]

\* a variant that closes the rule block at the first '}' whatever the depth
ScanRulesWithoutNesting(s, char) ==
    IF char = "}"
    THEN [s EXCEPT
            !.braceDepth = 0,
            !.parts = [s.parts EXCEPT ![Len(s.parts)].rules =
                                         Trim(s.currentRules)],
            !.currentRules = <<>>,
            !.inRules = FALSE,
            !.i = s.i + 1]
    ELSE [s EXCEPT !.braceDepth = IF char = "{" THEN s.braceDepth + 1
                                  ELSE s.braceDepth,
                   !.currentRules = Append(s.currentRules, char),
                   !.i = s.i + 1]

\* the branch of the loop body taken inside a rule block
ScanRules(s, char) ==
    IF char = "{"
    THEN [s EXCEPT !.braceDepth = s.braceDepth + 1,
                   !.currentRules = Append(s.currentRules, char),
                   !.i = s.i + 1]
    ELSE IF char = "}"
    THEN IF s.braceDepth - 1 = 0
         THEN [s EXCEPT
                 !.braceDepth = 0,
                 !.parts = [s.parts EXCEPT ![Len(s.parts)].rules =
                                              Trim(s.currentRules)],
                 !.currentRules = <<>>,
                 !.inRules = FALSE,
                 !.i = s.i + 1]
         ELSE [s EXCEPT !.braceDepth = s.braceDepth - 1,
                        !.currentRules = Append(s.currentRules, char),
                        !.i = s.i + 1]
    ELSE [s EXCEPT !.currentRules = Append(s.currentRules, char),
                   !.i = s.i + 1]

\* a variant that tracks quotes inside rule blocks too
ScanStepQuotesEverywhere(q, s) ==
    LET char == q[s.i + 1]
    IN  IF char \in {"\"", "'"}
        THEN [ScanQuote(q, s, char) EXCEPT
                 !.currentSelector = IF s.inRules THEN s.currentSelector ELSE @,
                 !.currentRules = IF s.inRules THEN Append(@, char) ELSE @]
        ELSE IF ~s.inRules THEN ScanSelector(s, char)
        ELSE ScanRules(s, char)

\* one iteration of the while loop of parseQuery
ScanStep(q, s) ==
    LET char == q[s.i + 1]
    IN  IF ~s.inRules /\ char \in {"\"", "'"} THEN ScanQuote(q, s, char)
        ELSE IF ~s.inRules THEN ScanSelector(s, char)
        ELSE ScanRules(s, char)

\* a variant that takes the segment of a block left open out of the result
TrailingPartsWithoutOpenBlock(s) ==
    IF s.inRules THEN SliceOffLast(s.parts)
    ELSE IF Trim(s.currentSelector) # <<>>
    THEN Append(s.parts, PlainSelector(Trim(s.currentSelector)))
    ELSE s.parts

\* what parseQuery does after its loop: the remaining selector, and the return
TrailingParts(s) ==
    IF Trim(s.currentSelector) # <<>>
    THEN Append(s.parts, PlainSelector(Trim(s.currentSelector)))
    ELSE s.parts

RECURSIVE ScanAll(_, _)
ScanAll(q, s) == IF s.i < Len(q) THEN ScanAll(q, ScanStep(q, s)) ELSE s

ParseQuery(q) == TrailingParts(ScanAll(q, InitScan))

-----------------------------------------------------------------------------
(* parseCSSRules *)

\* line.indexOf(c), 1-based; 0 when c does not occur
RECURSIVE IndexOf(_, _)
IndexOf(s, c) ==
    IF s = <<>> THEN 0
    ELSE IF Head(s) = c THEN 1
    ELSE LET r == IndexOf(Tail(s), c) IN IF r = 0 THEN 0 ELSE r + 1

\* s.split(c): the pieces of s between the occurrences of c, empty ones kept
RECURSIVE Split(_, _)
Split(s, c) ==
    LET k == IndexOf(s, c)
    IN  IF k = 0 THEN <<s>>
        ELSE <<SubSeq(s, 1, k - 1)>> \o Split(SubSeq(s, k + 1, Len(s)), c)

RECURSIVE MapTrim(_)
MapTrim(ss) == IF ss = <<>> THEN <<>> ELSE <<Trim(Head(ss))>> \o MapTrim(Tail(ss))

\* rulesString.split(';').map(line => line.trim()).filter(line => line)
RuleLines(rulesString) ==
    SelectSeq(MapTrim(Split(rulesString, ";")), LAMBDA line : line # <<>>)

\* the key that names an object's prototype: assigning a string to it is
\* ignored and adds no entry to the object
ProtoKey == <<"_", "_", "p", "r", "o", "t", "o", "_", "_">>

\* rules[property] = value on an object kept as its entries in insertion order:
\* a key that is already there keeps its place and takes the new value
RECURSIVE SetProperty(_, _, _)
SetProperty(rules, property, value) ==
    IF property = ProtoKey THEN rules
    ELSE IF rules = <<>> THEN << <<property, value>> >>
    ELSE IF Head(rules)[1] = property
         THEN << <<property, value>> >> \o Tail(rules)
         ELSE <<Head(rules)>> \o SetProperty(Tail(rules), property, value)

\* a variant that forgets the earlier clauses when it keeps one
AddRuleLineAlone(rules, line) ==
    LET colonIndex == IndexOf(line, ":")
        property   == Trim(SubSeq(line, 1, colonIndex - 1))
        value      == Trim(SubSeq(line, colonIndex + 1, Len(line)))
    IN  IF colonIndex = 0 THEN rules
        ELSE IF property # <<>> /\ value # <<>>
             THEN << <<property, value>> >>
             ELSE rules

\* the body of the for loop of parseCSSRules
AddRuleLine(rules, line) ==
    LET colonIndex == IndexOf(line, ":")
        property   == Trim(SubSeq(line, 1, colonIndex - 1))
        value      == Trim(SubSeq(line, colonIndex + 1, Len(line)))
    IN  IF colonIndex = 0 THEN rules
        ELSE IF property # <<>> /\ value # <<>>
             THEN SetProperty(rules, property, value)
             ELSE rules

RECURSIVE AddRuleLines(_, _)
AddRuleLines(rules, lines) ==
    IF lines = <<>> THEN rules
    ELSE AddRuleLines(AddRuleLine(rules, Head(lines)), Tail(lines))

ParseCSSRules(rulesString) == AddRuleLines(<<>>, RuleLines(rulesString))

-----------------------------------------------------------------------------
(* normalizePropertyName, hexToRgb, normalizeCSSValue *)

LowerCase == <<"a", "b", "c", "d", "e", "f", "g", "h", "i", "j", "k", "l", "m",
               "n", "o", "p", "q", "r", "s", "t", "u", "v", "w", "x", "y", "z">>
UpperCase == <<"A", "B", "C", "D", "E", "F", "G", "H", "I", "J", "K", "L", "M",
               "N", "O", "P", "Q", "R", "S", "T", "U", "V", "W", "X", "Y", "Z">>
Digits    == <<"0", "1", "2", "3", "4", "5", "6", "7", "8", "9">>
HexDigits == Digits \o <<"a", "b", "c", "d", "e", "f">>

IsIn(c, alphabet) == \E k \in 1..Len(alphabet) : alphabet[k] = c
PosIn(c, alphabet) == CHOOSE k \in 1..Len(alphabet) : alphabet[k] = c

ToLowerChar(c) == IF IsIn(c, UpperCase) THEN LowerCase[PosIn(c, UpperCase)] ELSE c
ToUpperChar(c) == IF IsIn(c, LowerCase) THEN UpperCase[PosIn(c, LowerCase)] ELSE c

\* a variant that leaves the letter case
KeepCase(s) == s

ToLowerCase(s) == [k \in 1..Len(s) |-> ToLowerChar(s[k])]

\* property.replace(/-([a-z])/g, (match, letter) => letter.toUpperCase())
RECURSIVE NormalizePropertyName(_)
NormalizePropertyName(property) ==
    IF property = <<>> THEN <<>>
    ELSE IF Len(property) >= 2 /\ property[1] = "-" /\ IsIn(property[2], LowerCase)
         THEN <<ToUpperChar(property[2])>>
              \o NormalizePropertyName(SubSeq(property, 3, Len(property)))
         ELSE <<Head(property)>> \o NormalizePropertyName(Tail(property))

\* Number.prototype.toString of a non-negative integer
RECURSIVE DecimalDigits(_)
DecimalDigits(n) ==
    IF n < 10 THEN <<Digits[n + 1]>>
    ELSE DecimalDigits(n \div 10) \o <<Digits[(n % 10) + 1]>>

NaN == <<"N", "a", "N">>

\* the text of an integer that may be negative
NumberText(n) == IF n < 0 THEN <<"-">> \o DecimalDigits(0 - n) ELSE DecimalDigits(n)

\* parseInt(s, 16) of at most two characters s, as the text string
\* concatenation gives it: NaN when s does not begin with a hex digit
ParseIntHexText(s) ==
    IF s = <<>> \/ ~IsIn(ToLowerChar(s[1]), HexDigits) THEN NaN
    ELSE IF Len(s) >= 2 /\ IsIn(ToLowerChar(s[2]), HexDigits)
         THEN DecimalDigits(16 * (PosIn(ToLowerChar(s[1]), HexDigits) - 1)
                            + (PosIn(ToLowerChar(s[2]), HexDigits) - 1))
         ELSE DecimalDigits(PosIn(ToLowerChar(s[1]), HexDigits) - 1)

\* s.substring(from, to), 0-based, to exclusive, both clamped to the length
Substring(s, from, to) ==
    SubSeq(s, (IF from > Len(s) THEN Len(s) ELSE from) + 1,
              IF to > Len(s) THEN Len(s) ELSE to)

\* hex.replace('#', ''): the first '#' removed
RemoveFirstHash(s) ==
    LET k == IndexOf(s, "#")
    IN  IF k = 0 THEN s ELSE SubSeq(s, 1, k - 1) \o SubSeq(s, k + 1, Len(s))

RECURSIVE DoubleEach(_)
DoubleEach(s) ==
    IF s = <<>> THEN <<>> ELSE <<Head(s), Head(s)>> \o DoubleEach(Tail(s))

RgbText(r, g, b) ==
    <<"r", "g", "b", "(">> \o r \o <<",">> \o g \o <<",">> \o b \o <<")">>

HexToRgb(hex0) ==
    LET h1  == RemoveFirstHash(hex0)
        hex == IF Len(h1) = 3 THEN DoubleEach(h1) ELSE h1
    IN  RgbText(ParseIntHexText(Substring(hex, 0, 2)),
                ParseIntHexText(Substring(hex, 2, 4)),
                ParseIntHexText(Substring(hex, 4, 6)))

\* value.match(/^#[0-9a-f]{3,6}$/i)
IsHexColor(value) ==
    /\ Len(value) \in 4..7
    /\ value[1] = "#"
    /\ \A k \in 2..Len(value) : IsIn(ToLowerChar(value[k]), HexDigits)

-----------------------------------------------------------------------------
(* hslToRgb: numbers are exact fractions <<numerator, denominator>> *)

RECURSIVE Gcd(_, _)
Gcd(a, b) == IF b = 0 THEN a ELSE Gcd(b, a % b)

Abs(n) == IF n < 0 THEN 0 - n ELSE n

Frac(n, d) == LET g == Gcd(Abs(n), d) IN IF g = 0 THEN <<0, 1>> ELSE <<n \div g, d \div g>>

FAdd(x, y)  == Frac(x[1] * y[2] + y[1] * x[2], x[2] * y[2])
FSub(x, y)  == Frac(x[1] * y[2] - y[1] * x[2], x[2] * y[2])
FMul(x, y)  == Frac(x[1] * y[1], x[2] * y[2])
FLess(x, y) == x[1] * y[2] < y[1] * x[2]

\* Math.round: the nearest integer, a half rounded up
FRound(x) == (2 * x[1] + x[2]) \div (2 * x[2])

\* the helper hue2rgb of hslToRgb, once t is brought into 0..1
Hue2RgbIn(p, q, t) ==
    IF FLess(t, <<1, 6>>)
    THEN FAdd(p, FMul(FMul(FSub(q, p), <<6, 1>>), t))
    ELSE IF FLess(t, <<1, 2>>) THEN q
    ELSE IF FLess(t, <<2, 3>>)
         THEN FAdd(p, FMul(FMul(FSub(q, p), FSub(<<2, 3>>, t)), <<6, 1>>))
         ELSE p

\* if (t < 0) t += 1
WrapLow(t) == IF FLess(t, <<0, 1>>) THEN FAdd(t, <<1, 1>>) ELSE t

\* if (t > 1) t -= 1
WrapHigh(t) == IF FLess(<<1, 1>>, t) THEN FSub(t, <<1, 1>>) ELSE t

Hue2Rgb(p, q, t) == Hue2RgbIn(p, q, WrapHigh(WrapLow(t)))

\* Math.round(x * 255), as the text string concatenation gives it
Channel(x) == NumberText(FRound(FMul(x, <<255, 1>>)))

\* hslToRgb once h, s and l are fractions of one and q and p are computed
HslChannels(h, s, l, q, p) ==
    IF s[1] = 0
    THEN RgbText(Channel(l), Channel(l), Channel(l))
    ELSE RgbText(Channel(Hue2Rgb(p, q, FAdd(h, <<1, 3>>))),
                 Channel(Hue2Rgb(p, q, h)),
                 Channel(Hue2Rgb(p, q, FSub(h, <<1, 3>>))))

HslWithQ(h, s, l, q) == HslChannels(h, s, l, q, FSub(FMul(<<2, 1>>, l), q))

HslScaled(h, s, l) ==
    HslWithQ(h, s, l,
             IF FLess(l, <<1, 2>>)
             THEN FMul(l, FAdd(<<1, 1>>, s))
             ELSE FSub(FAdd(l, s), FMul(l, s)))

HslToRgb(h, s, l) ==
    HslScaled(FMul(h, <<1, 360>>), FMul(s, <<1, 100>>), FMul(l, <<1, 100>>))

-----------------------------------------------------------------------------
(* the hsl pattern of normalizeCSSValue *)

NoMatch == [found |-> FALSE, end |-> 0, value |-> <<0, 1>>]

\* \s* from position p on: the position after it
RECURSIVE SkipSpace(_, _)
SkipSpace(v, p) ==
    IF p <= Len(v) /\ v[p] \in WhiteSpace THEN SkipSpace(v, p + 1) ELSE p

\* \d* from position p on: the position after it
RECURSIVE SkipDigits(_, _)
SkipDigits(v, p) ==
    IF p <= Len(v) /\ IsIn(v[p], Digits) THEN SkipDigits(v, p + 1) ELSE p

\* the number a run of decimal digits writes
RECURSIVE DigitsValue(_)
DigitsValue(ds) ==
    IF ds = <<>> THEN 0
    ELSE 10 * DigitsValue(SubSeq(ds, 1, Len(ds) - 1)) + (PosIn(ds[Len(ds)], Digits) - 1)

RECURSIVE Pow10(_)
Pow10(n) == IF n = 0 THEN 1 ELSE 10 * Pow10(n - 1)

\* (\d+(?:\.\d+)?) at position p, and parseFloat of what it captured
MatchNumber(v, p) ==
    LET e1 == SkipDigits(v, p)
        e2 == IF e1 <= Len(v) /\ v[e1] = "." THEN SkipDigits(v, e1 + 1) ELSE e1
    IN  IF e1 = p THEN NoMatch
        ELSE IF e2 > e1 + 1
             THEN [found |-> TRUE, end |-> e2,
                   value |-> Frac(DigitsValue(SubSeq(v, p, e1 - 1)) * Pow10(e2 - e1 - 1)
                                  + DigitsValue(SubSeq(v, e1 + 1, e2 - 1)),
                                  Pow10(e2 - e1 - 1))]
             ELSE [found |-> TRUE, end |-> e1,
                   value |-> <<DigitsValue(SubSeq(v, p, e1 - 1)), 1>>]

\* the literal text lit at position p: the position after it, 0 when absent
MatchLiteral(v, p, lit) ==
    IF p >= 1 /\ p + Len(lit) - 1 <= Len(v) /\ SubSeq(v, p, p + Len(lit) - 1) = lit
    THEN p + Len(lit) ELSE 0

NoHsl == [found |-> FALSE, h |-> <<0, 1>>, s |-> <<0, 1>>, l |-> <<0, 1>>]

\* the hsl pattern tried at position p, piece by piece: each operator matches
\* one piece and hands what is left to the next
HslClose(v, h, s, l) ==
    IF ~l.found \/ MatchLiteral(v, l.end, <<"%">>) = 0 THEN NoHsl
    ELSE IF MatchLiteral(v, SkipSpace(v, l.end + 1), <<")">>) = 0 THEN NoHsl
    ELSE [found |-> TRUE, h |-> h.value, s |-> s.value, l |-> l.value]

HslLightness(v, h, s) ==
    IF ~s.found \/ MatchLiteral(v, s.end, <<"%">>) = 0 THEN NoHsl
    ELSE IF MatchLiteral(v, SkipSpace(v, s.end + 1), <<",">>) = 0 THEN NoHsl
    ELSE HslClose(v, h, s,
                  MatchNumber(v, SkipSpace(v, SkipSpace(v, s.end + 1) + 1)))

HslSaturation(v, h) ==
    IF ~h.found \/ MatchLiteral(v, SkipSpace(v, h.end), <<",">>) = 0 THEN NoHsl
    ELSE HslLightness(v, h,
                      MatchNumber(v, SkipSpace(v, SkipSpace(v, h.end) + 1)))

HslMatchAt(v, p) ==
    IF MatchLiteral(v, p, <<"h", "s", "l", "(">>) = 0 THEN NoHsl
    ELSE HslSaturation(v, MatchNumber(v, SkipSpace(v, p + 4)))

\* value.match(/hsl\(...\)/i): the leftmost match, the pattern is not anchored
RECURSIVE HslMatchFrom(_, _)
HslMatchFrom(v, p) ==
    IF p > Len(v) THEN NoHsl
    ELSE IF HslMatchAt(v, p).found THEN HslMatchAt(v, p)
    ELSE HslMatchFrom(v, p + 1)

HslMatch(v) == HslMatchFrom(v, 1)

-----------------------------------------------------------------------------
(* normalizeCSSValue *)

NamedColors ==
    << << <<"t","r","a","n","s","p","a","r","e","n","t">>,
          <<"r","g","b","a","(","0",",","0",",","0",",","0",")">> >>,
       << <<"b","l","a","c","k">>, RgbText(<<"0">>, <<"0">>, <<"0">>) >>,
       << <<"w","h","i","t","e">>,
          RgbText(<<"2","5","5">>, <<"2","5","5">>, <<"2","5","5">>) >>,
       << <<"r","e","d">>, RgbText(<<"2","5","5">>, <<"0">>, <<"0">>) >>,
       << <<"g","r","e","e","n">>, RgbText(<<"0">>, <<"1","2","8">>, <<"0">>) >>,
       << <<"b","l","u","e">>, RgbText(<<"0">>, <<"0">>, <<"2","5","5">>) >>,
       << <<"y","e","l","l","o","w">>,
          RgbText(<<"2","5","5">>, <<"2","5","5">>, <<"0">>) >>,
       << <<"c","y","a","n">>, RgbText(<<"0">>, <<"2","5","5">>, <<"2","5","5">>) >>,
       << <<"m","a","g","e","n","t","a">>,
          RgbText(<<"2","5","5">>, <<"0">>, <<"2","5","5">>) >>,
       << <<"g","r","a","y">>,
          RgbText(<<"1","2","8">>, <<"1","2","8">>, <<"1","2","8">>) >>,
       << <<"g","r","e","y">>,
          RgbText(<<"1","2","8">>, <<"1","2","8">>, <<"1","2","8">>) >> >>

\* the keys namedColors inherits from Object.prototype that a lowercased value
\* can spell: namedColors[value] is then an object or a function, not a string
InheritedKeys ==
    { <<"c","o","n","s","t","r","u","c","t","o","r">>,
      <<"_","_","p","r","o","t","o","_","_">> }

\* what normalizeCSSValue gives when value.replace is not a function
TypeErrorValue == <<"TypeError">>

IsNamedColor(value) == \E k \in 1..Len(NamedColors) : NamedColors[k][1] = value

NamedColorOf(value) ==
    NamedColors[CHOOSE k \in 1..Len(NamedColors) : NamedColors[k][1] = value][2]

\* value.replace(/\s+/g, '')
RemoveWhiteSpace(s) == SelectSeq(s, LAMBDA c : c \notin WhiteSpace)

\* the length of the match of /rgba?\([^)]+\)/ at the head of s, 0 when none
RgbMatchLen(s) ==
    LET open == IF MatchLiteral(s, 1, <<"r", "g", "b", "(">>) # 0 THEN 4
                ELSE IF MatchLiteral(s, 1, <<"r", "g", "b", "a", "(">>) # 0 THEN 5
                ELSE 0
        close == IF open = 0 THEN 0 ELSE IndexOf(SubSeq(s, open + 1, Len(s)), ")")
    IN  IF open # 0 /\ close >= 2 THEN open + close ELSE 0

\* value.replace(/rgba?\([^)]+\)/g, match => match.replace(/\s+/g, ''))
RECURSIVE CompactRgb(_)
CompactRgb(s) ==
    IF s = <<>> THEN <<>>
    ELSE IF RgbMatchLen(s) # 0
         THEN RemoveWhiteSpace(SubSeq(s, 1, RgbMatchLen(s)))
              \o CompactRgb(SubSeq(s, RgbMatchLen(s) + 1, Len(s)))
         ELSE <<Head(s)>> \o CompactRgb(Tail(s))

\* a variant that converts no hex colour
HexStepSkipped(value) == value

\* the steps of normalizeCSSValue after value.trim().toLowerCase()
HexStep(value) == IF IsHexColor(value) THEN HexToRgb(value) ELSE value

HslResult(value, hslMatch) ==
    IF hslMatch.found THEN HslToRgb(hslMatch.h, hslMatch.s, hslMatch.l) ELSE value

HslStep(value) == HslResult(value, HslMatch(value))

NamedStep(value) ==
    IF value \in InheritedKeys THEN TypeErrorValue
    ELSE IF IsNamedColor(value) THEN NamedColorOf(value)
    ELSE value

WhiteSpaceStep(value) ==
    IF value = TypeErrorValue THEN value
    ELSE CompactRgb(RemoveWhiteSpace(value))

NormalizeCSSValue(value) ==
    IF value = <<>> THEN <<>>
    ELSE WhiteSpaceStep(NamedStep(HslStep(HexStep(ToLowerCase(Trim(value))))))

-----------------------------------------------------------------------------
(* The DOM and the host's queries on it.  Node 0 is the outermost element;  *)
(* the elements 1..NumNodes below it are numbered in document order, in     *)
(* chains of three: 1 > 2 > 3, 4 > 5 > 6, ...                               *)

NumNodes == 4

Nodes    == 0..NumNodes
Elements == 1..NumNodes

\* node.parentElement; -1 is null
ParentElement(n) ==
    IF n = 0 THEN -1 ELSE IF (n - 1) % 3 = 0 THEN 0 ELSE n - 1

RECURSIVE IsInside(_, _)
IsInside(m, n) ==
    IF m = -1 \/ ParentElement(m) = -1 THEN FALSE
    ELSE ParentElement(m) = n \/ IsInside(ParentElement(m), n)

DocumentOrder == [k \in 1..NumNodes |-> k]

\* node.children
Children(n) == SelectSeq(DocumentOrder, LAMBDA m : ParentElement(m) = n)

TagNames  == {"a", "b"}
Universal == <<"*">>

\* the selectors the host accepts: a type selector or the universal selector,
\* white space around it ignored; it rejects every other text of the model
ValidSelector(sel) ==
    \/ Trim(sel) = Universal
    \/ Len(Trim(sel)) = 1 /\ Trim(sel)[1] \in TagNames

\* element.matches(sel), for a selector the host accepts
Matches(n, sel) == Trim(sel) = Universal \/ Trim(sel) = <<tag[n]>>

\* node.querySelectorAll(sel), for a selector the host accepts
QuerySelectorAll(n, sel) ==
    SelectSeq(DocumentOrder, LAMBDA m : IsInside(m, n) /\ Matches(m, sel))

\* the properties a computed style has
KnownProperties == { <<"d">>, <<"c">>, <<"b", "-", "c">> }

\* computedStyle[key]: the value under the camel-case name, <<>> (falsy) when
\* the style has no such member
StyleMember(n, key) ==
    IF \E p \in KnownProperties : NormalizePropertyName(p) = key
    THEN style[n][CHOOSE p \in KnownProperties : NormalizePropertyName(p) = key]
    ELSE <<>>

\* computedStyle.getPropertyValue(property)
GetPropertyValue(n, property) ==
    IF property \in KnownProperties THEN style[n][property] ELSE <<>>

-----------------------------------------------------------------------------
(* elementMatchesRules *)

\* const actualValue = computedStyle[normalizedProperty]
\*                     || computedStyle.getPropertyValue(property)
ActualValue(element, property) ==
    IF StyleMember(element, NormalizePropertyName(property)) # <<>>
    THEN StyleMember(element, NormalizePropertyName(property))
    ELSE GetPropertyValue(element, property)

\* a variant that compares the first pair only
MatchOutcomeOfFirst(element, rules) ==
    IF rules = <<>> THEN "true"
    ELSE IF NormalizeCSSValue(Head(rules)[2])
            # NormalizeCSSValue(ActualValue(element, Head(rules)[1]))
         THEN "false"
         ELSE "true"

\* the for loop of elementMatchesRules over Object.entries(rules): "true",
\* "false", or "TypeError" when normalizeCSSValue throws
RECURSIVE MatchOutcome(_, _)
MatchOutcome(element, rules) ==
    IF rules = <<>> THEN "true"
    ELSE LET normalizedExpected == NormalizeCSSValue(Head(rules)[2])
             normalizedActual   ==
                 NormalizeCSSValue(ActualValue(element, Head(rules)[1]))
         IN  IF normalizedExpected = TypeErrorValue \/ normalizedActual = TypeErrorValue
             THEN "TypeError"
             ELSE IF normalizedExpected # normalizedActual THEN "false"
             ELSE MatchOutcome(element, Tail(rules))

ElementMatchesRules(element, rules) == MatchOutcome(element, rules) = "true"

-----------------------------------------------------------------------------
(* executeQuery *)

RECURSIVE Flatten(_)
Flatten(ss) == IF ss = <<>> THEN <<>> ELSE Head(ss) \o Flatten(Tail(ss))

\* the selector a rule segment hands to the host for one current element;
\* <<>> when it hands none
HostSelector(part) ==
    IF part.type = "selector" THEN part.selector
    ELSE IF part.relationship = Filter
         THEN (IF part.selector # <<>> THEN part.selector ELSE Universal)
         ELSE part.selector

\* the while loop over the ancestors of a match, from ancestor up to element
RECURSIVE AncestorMatches(_, _, _)
AncestorMatches(ancestor, element, prev) ==
    IF ancestor = -1 \/ ancestor = element THEN FALSE
    ELSE \/ \E k \in 1..Len(prev) : Matches(ancestor, prev[k])
         \/ AncestorMatches(ParentElement(ancestor), element, prev)

\* a variant without the exclusion
NeverExclude(match, element, prev) == FALSE

ShouldExclude(match, element, prev) ==
    prev # <<>> /\ AncestorMatches(ParentElement(match), element, prev)

\* a variant that searches the whole document
SelectorCandidatesInDocument(element, part) ==
    SelectSeq(DocumentOrder, LAMBDA match : Matches(match, part.selector))

\* a variant that looks no deeper than the children of the current element
SelectorCandidatesOfChildren(element, part) ==
    SelectSeq(Children(element), LAMBDA match : Matches(match, part.selector))

\* the elements one current element contributes, before the rules are applied
SelectorCandidates(element, part) == QuerySelectorAll(element, part.selector)

\* a variant that looks no deeper than the children of the current element
FilterCandidatesOfChildren(element, part, prev) ==
    SelectSeq(Children(element),
              LAMBDA match : Matches(match, HostSelector(part))
                             /\ ~ShouldExclude(match, element, prev))

FilterCandidates(element, part, prev) ==
    SelectSeq(QuerySelectorAll(element, HostSelector(part)),
              LAMBDA match : ~ShouldExclude(match, element, prev))

\* a variant that also takes the elements matching the selector themselves
DescendantCandidatesOrSelf(element, part) ==
    IF part.selector # <<>>
    THEN LET matches == QuerySelectorAll(element, part.selector)
         IN  Flatten([k \in 1..Len(matches) |->
                         <<matches[k]>> \o QuerySelectorAll(matches[k], Universal)])
    ELSE QuerySelectorAll(element, Universal)

DescendantCandidates(element, part) ==
    IF part.selector # <<>>
    THEN LET matches == QuerySelectorAll(element, part.selector)
         IN  Flatten([k \in 1..Len(matches) |->
                         QuerySelectorAll(matches[k], Universal)])
    ELSE QuerySelectorAll(element, Universal)

\* a variant that takes every descendant of a search root
ChildCandidatesAtAnyDepth(element, part) ==
    LET searchRoots == IF part.selector # <<>>
                       THEN QuerySelectorAll(element, part.selector)
                       ELSE <<element>>
    IN  Flatten([k \in 1..Len(searchRoots) |->
                    QuerySelectorAll(searchRoots[k], Universal)])

ChildCandidates(element, part) ==
    LET searchRoots == IF part.selector # <<>>
                       THEN QuerySelectorAll(element, part.selector)
                       ELSE <<element>>
    IN  Flatten([k \in 1..Len(searchRoots) |-> Children(searchRoots[k])])

Candidates(cur, part, prev) ==
    Flatten([k \in 1..Len(cur) |->
        IF part.type = "selector" THEN SelectorCandidates(cur[k], part)
        ELSE IF part.relationship = Filter THEN FilterCandidates(cur[k], part, prev)
        ELSE IF part.relationship = Descendant THEN DescendantCandidates(cur[k], part)
        ELSE ChildCandidates(cur[k], part)])

\* the rules a part applies: none for a plain selector
PartRules(part) ==
    IF part.type = "selector" THEN <<>> ELSE ParseCSSRules(part.rules)

\* nextResults of one iteration of the for loop over the parts
NextResults(cur, part, prev) ==
    LET rules == PartRules(part)
    IN  SelectSeq(Candidates(cur, part, prev),
                  LAMBDA match : ElementMatchesRules(match, rules))

\* a variant that records the selector of every rule segment
NextSelectorsOfAnySegment(part, prev) ==
    IF part.type = "selector-with-rules" /\ part.selector # <<>>
    THEN Append(prev, part.selector)
    ELSE prev

\* previousFilterSelectors after the part
NextFilterSelectors(part, prev) ==
    IF part.type = "selector-with-rules" /\ part.relationship = Filter
       /\ part.selector # <<>>
    THEN Append(prev, part.selector)
    ELSE prev

\* a variant in which a rejected selector finds nothing instead of throwing
HostErrorSwallowed(cur, part) == FALSE

\* a variant that has the selector rejected with no element to search from
HostThrowsUnasked(cur, part) ==
    HostSelector(part) # <<>> /\ ~ValidSelector(HostSelector(part))

\* the part makes the host throw: it hands it a selector it rejects
HostThrows(cur, part) ==
    cur # <<>> /\ HostSelector(part) # <<>> /\ ~ValidSelector(HostSelector(part))

\* the part makes normalizeCSSValue throw on one of its candidates
RulesThrow(cur, part, prev) ==
    LET rules == PartRules(part)
        cands == Candidates(cur, part, prev)
    IN  \E k \in 1..Len(cands) : MatchOutcome(cands[k], rules) = "TypeError"

\* [...new Set(currentElements)]: first occurrences, in order
RECURSIVE AddAll(_, _)
AddAll(set, s) ==
    IF s = <<>> THEN set
    ELSE AddAll(IF \E k \in 1..Len(set) : set[k] = Head(s)
                THEN set ELSE Append(set, Head(s)),
                Tail(s))

\* a variant that keeps every occurrence
KeepAll(cur) == cur

UniqueResults(cur) == AddAll(<<>>, cur)

NoResult == [kind |-> "none", nodes |-> <<>>]
Thrown(what) == [kind |-> what, nodes |-> <<>>]

\* a variant that returns the current set as it is, repeats included
ReturnedWithRepeats(cur, all) ==
    IF all THEN [kind |-> "array", nodes |-> cur]
    ELSE IF Len(cur) > 0
         THEN [kind |-> "element", nodes |-> <<cur[1]>>]
         ELSE [kind |-> "null", nodes |-> <<>>]

\* a variant that returns the last element where the first is due
ReturnedLast(cur, all) ==
    IF all THEN [kind |-> "array", nodes |-> UniqueResults(cur)]
    ELSE IF Len(UniqueResults(cur)) > 0
         THEN [kind |-> "element",
               nodes |-> <<UniqueResults(cur)[Len(UniqueResults(cur))]>>]
         ELSE [kind |-> "null", nodes |-> <<>>]

\* the return statement of executeQuery
Returned(cur, all) ==
    IF all THEN [kind |-> "array", nodes |-> UniqueResults(cur)]
    ELSE IF Len(UniqueResults(cur)) > 0
         THEN [kind |-> "element", nodes |-> <<UniqueResults(cur)[1]>>]
         ELSE [kind |-> "null", nodes |-> <<>>]

-----------------------------------------------------------------------------
(* parseQuery, one loop iteration at a time *)

SetScan(s) ==
    /\ parts' = s.parts
    /\ i' = s.i
    /\ currentSelector' = s.currentSelector
    /\ inRules' = s.inRules
    /\ currentRules' = s.currentRules
    /\ braceDepth' = s.braceDepth
    /\ inQuotes' = s.inQuotes
    /\ quoteChar' = s.quoteChar

ScanChar ==
    /\ pc = "scan"
    /\ i < Len(query)
    /\ SetScan(ScanStep(query, ScanState))
    /\ UNCHANGED <<pc, callVars, domVars, evalVars, ruleVars, normVars,
                   earlier>>

FinishParse ==
    /\ pc = "scan"
    /\ ~(i < Len(query))
    /\ parts' = TrailingParts(ScanState)
    /\ pc' = "parsed"
    /\ UNCHANGED <<i, currentSelector, inRules, currentRules, braceDepth,
                   inQuotes, quoteChar, callVars, domVars, evalVars, ruleVars,
                   normVars,
                   earlier>>

-----------------------------------------------------------------------------
(* executeQuery, one part at a time *)

\* a variant whose list of filter selectors outlives the call
CallKeepingSelectors(q, r, all) ==
    /\ pc = "idle"
    /\ query' = q
    /\ root' = r
    /\ findAll' = all
    /\ SetScan([ScanAll(q, InitScan) EXCEPT !.parts = ParseQuery(q)])
    /\ currentElements' = <<r>>
    /\ partIndex' = 0
    /\ result' = NoResult
    /\ pc' = "loop"
    /\ UNCHANGED <<previousFilterSelectors, domVars, ruleVars, normVars,
                   earlier>>

\* the first statements of executeQuery(q, r, all)
Call(q, r, all) ==
    /\ pc = "idle"
    /\ query' = q
    /\ root' = r
    /\ findAll' = all
    /\ SetScan([ScanAll(q, InitScan) EXCEPT !.parts = ParseQuery(q)])
    /\ currentElements' = <<r>>
    /\ previousFilterSelectors' = <<>>
    /\ partIndex' = 0
    /\ result' = NoResult
    /\ pc' = "loop"
    /\ UNCHANGED <<domVars, ruleVars, normVars,
                   earlier>>

\* one iteration of the for loop over the parts
EvalPart ==
    /\ pc = "loop"
    /\ partIndex < Len(parts)
    /\ LET part == parts[partIndex + 1]
       IN  IF HostThrows(currentElements, part)
           THEN /\ result' = Thrown("SyntaxError")
                /\ pc' = "returned"
                /\ UNCHANGED <<partIndex, currentElements, previousFilterSelectors>>
           ELSE IF RulesThrow(currentElements, part, previousFilterSelectors)
           THEN /\ result' = Thrown("TypeError")
                /\ pc' = "returned"
                /\ UNCHANGED <<partIndex, currentElements, previousFilterSelectors>>
           ELSE /\ currentElements' =
                       NextResults(currentElements, part, previousFilterSelectors)
                /\ previousFilterSelectors' =
                       NextFilterSelectors(part, previousFilterSelectors)
                /\ partIndex' = partIndex + 1
                /\ UNCHANGED <<pc, result>>
    /\ UNCHANGED <<callVars, domVars, scanVars, ruleVars, normVars,
                   earlier>>

\* the end of executeQuery: duplicates removed, the result returned
Return ==
    /\ pc = "loop"
    /\ ~(partIndex < Len(parts))
    /\ result' = Returned(currentElements, findAll)
    /\ pc' = "returned"
    /\ UNCHANGED <<callVars, domVars, scanVars, partIndex, currentElements,
                   previousFilterSelectors, ruleVars, normVars,
                   earlier>>

\* executeQuery(q, r, all) as a function of its arguments: the for loop run
\* from part k to the end
RECURSIVE RunParts(_, _, _, _, _)
RunParts(ps, k, cur, prev, all) ==
    IF k > Len(ps) THEN Returned(cur, all)
    ELSE IF HostThrows(cur, ps[k]) THEN Thrown("SyntaxError")
    ELSE IF RulesThrow(cur, ps[k], prev) THEN Thrown("TypeError")
    ELSE RunParts(ps, k + 1, NextResults(cur, ps[k], prev),
                  NextFilterSelectors(ps[k], prev), all)

ExecuteQuery(q, r, all) == RunParts(ParseQuery(q), 1, <<r>>, <<>>, all)

-----------------------------------------------------------------------------
(* parseCSSRules and elementMatchesRules as steps *)

NoRules ==
    /\ cssText = <<>> /\ cssRules = <<>> /\ target = 0 /\ matched = "none"

\* parseCSSRules(rulesString)
ParseRules ==
    /\ pc = "parseCSSRules"
    /\ cssRules' = ParseCSSRules(cssText)
    /\ pc' = "elementMatchesRules"
    /\ UNCHANGED <<callVars, domVars, scanVars, evalVars, cssText, target,
                   matched, normVars,
                   earlier>>

\* elementMatchesRules(element, rules)
MatchRules ==
    /\ pc = "elementMatchesRules"
    /\ matched' = MatchOutcome(target, cssRules)
    /\ pc' = "matched"
    /\ UNCHANGED <<callVars, domVars, scanVars, evalVars, cssText, cssRules,
                   target, normVars,
                   earlier>>

-----------------------------------------------------------------------------
(* normalizeCSSValue as a step, and the step of a caller that normalises the *)
(* value it got                                                              *)

NoValue == rawValue = <<>> /\ normalizedValue = <<>>

\* no call has been made yet
NoEarlier == earlier = <<>>

\* normalizeCSSValue(rawValue): it returns a string or throws a TypeError
Normalize ==
    /\ pc = "normalizeCSSValue"
    /\ normalizedValue' = NormalizeCSSValue(rawValue)
    /\ pc' = IF NormalizeCSSValue(rawValue) = TypeErrorValue
             THEN "thrown" ELSE "normalized"
    /\ UNCHANGED <<callVars, domVars, scanVars, evalVars, ruleVars, rawValue,
                   earlier>>

\* normalizeCSSValue(normalizedValue): the value returned is normalised again
NormalizeAgain ==
    /\ pc = "normalized"
    /\ rawValue' = normalizedValue
    /\ normalizedValue' = NormalizeCSSValue(normalizedValue)
    /\ pc' = IF NormalizeCSSValue(normalizedValue) = TypeErrorValue
             THEN "rethrown" ELSE "renormalized"
    /\ UNCHANGED <<callVars, domVars, scanVars, evalVars, ruleVars, earlier>>

-----------------------------------------------------------------------------
(* The inputs *)

Flex  == <<"f">>
Block == <<"k">>
Red   == <<"r","g","b","(","2","5","5",","," ","0",","," ","0",")">>
Blue  == <<"r","g","b","(","0",","," ","0",","," ","2","5","5",")">>

StyleOf(d, c) ==
    (<<"d">> :> d) @@ (<<"c">> :> c) @@ (<<"b", "-", "c">> :> Blue)

\* what an element can be: an a displayed flex or block, or a b displayed flex
ElementKinds ==
    { [tag |-> "a", d |-> Flex], [tag |-> "a", d |-> Block],
      [tag |-> "b", d |-> Flex] }

\* the documents: every element is of one of the kinds; the colour is red on
\* the elements with an odd number and blue on the others
Doms ==
    { [tag |-> [n \in Nodes |-> IF n = 0 THEN "h" ELSE kind[n].tag],
       style |-> [n \in Nodes |->
                     IF n = 0 THEN StyleOf(Block, Blue)
                     ELSE StyleOf(kind[n].d, IF n % 2 = 1 THEN Red ELSE Blue)]] :
      kind \in [Elements -> ElementKinds] }

\* the texts before a rule block: a selector and the cue of the relationship
SelectorTexts == { <<>>, <<"a">>, <<"b">> }
Cues          == { <<>>, <<" ">>, <<">">> }

DisplayFlex == <<"d",":","f">>
ColorRed    == <<"c",":","r","e","d">>

\* rule-block bodies
Bodies ==
    { <<>>, DisplayFlex,
      <<"d",":"," ","F",";","c",":","#","f","0","0",";">> }

Block1(sel, cue, body) == sel \o cue \o <<"{">> \o body \o <<"}">>

BlocksWith(bodies) ==
    { Block1(sel, cue, body) :
        sel \in SelectorTexts, cue \in Cues, body \in bodies }

\* the queries of the evaluator's specification: a plain selector, one rule
\* block with or without a trailing plain selector, or two rule blocks, the
\* first of them with a selector
PlainQueries ==
    { <<>>, <<" ">>, <<"a">>, <<"b">>, <<" ", "b", " ">>, <<"*">>,
      <<"\t", "a", "\n">>, <<"!">>, <<"a", "}">> }

Queries ==
    LET tails == { <<"a">>, <<" ", "b", " ">>, <<"!">> }
    IN  PlainQueries
        \cup BlocksWith(Bodies)
        \cup { b1 \o t : b1 \in BlocksWith({DisplayFlex}), t \in tails }
        \cup { Block1(sel, cue, DisplayFlex) \o b2 :
                 sel \in {<<"a">>, <<"b">>}, cue \in Cues,
                 b2 \in BlocksWith({ColorRed}) }

Roots == {0, 1}

IdleCall ==
    /\ pc = "idle"
    /\ query = <<>> /\ root = 0 /\ findAll = FALSE
    /\ parts = <<>> /\ i = 0 /\ currentSelector = <<>> /\ inRules = FALSE
    /\ currentRules = <<>> /\ braceDepth = 0 /\ inQuotes = FALSE
    /\ quoteChar = ""
    /\ partIndex = 0 /\ currentElements = <<>>
    /\ previousFilterSelectors = <<>> /\ result = NoResult
    /\ NoRules /\ NoValue /\ NoEarlier

Init ==
    /\ IdleCall
    /\ \E dom \in Doms : tag = dom.tag /\ style = dom.style

\* querySelectorWithCssRules(q, r)
QuerySelectorWithCssRules ==
    \E q \in Queries, r \in Roots : Call(q, r, FALSE)

\* querySelectorAllWithCssRules(q, r)
QuerySelectorAllWithCssRules ==
    \E q \in Queries, r \in Roots : Call(q, r, TRUE)

Next ==
    \/ QuerySelectorWithCssRules
    \/ QuerySelectorAllWithCssRules
    \/ EvalPart
    \/ Return

Spec == Init /\ [][Next]_vars

-----------------------------------------------------------------------------
(* The parser alone, on every short text over its alphabet *)

MaxQueryLen == 4

ParserAlphabet == {"a", " ", "\t", ">", "{", "}", "\"", "'", "\\"}

RECURSIVE TextsUpTo(_)
TextsUpTo(n) ==
    IF n = 0 THEN { <<>> }
    ELSE TextsUpTo(n - 1)
         \cup { Append(t, c) : t \in { u \in TextsUpTo(n - 1) : Len(u) = n - 1 },
                               c \in ParserAlphabet }

\* the query of the test 'should handle braces in attribute selector values'
BracesInAttribute ==
    <<"[", "d", "a", "t", "a", "-", "v", "a", "l", "u", "e", "=", "\"",
      "s", "o", "m", "e", "{", "t", "h", "i", "n", "g", "}", "\"", "]",
      "{", " ", "d", "i", "s", "p", "l", "a", "y", ":", " ", "b", "l",
      "o", "c", "k", ";", " ", "}">>

\* an attribute value that ends with an escaped backslash
BackslashInAttribute ==
    <<"[", "a", "=", "\"", "\\", "\\", "\"", "]", "{", "a", "}">>

QueryTexts == TextsUpTo(MaxQueryLen) \cup {BracesInAttribute, BackslashInAttribute}

\* the characters of the query texts
QueryChars == UNION { { t[k] : k \in 1..Len(t) } : t \in QueryTexts }

InitParse ==
    /\ pc = "scan"
    /\ query \in QueryTexts
    /\ root = 0 /\ findAll = FALSE
    /\ parts = <<>> /\ i = 0 /\ currentSelector = <<>> /\ inRules = FALSE
    /\ currentRules = <<>> /\ braceDepth = 0 /\ inQuotes = FALSE
    /\ quoteChar = ""
    /\ partIndex = 0 /\ currentElements = <<>>
    /\ previousFilterSelectors = <<>> /\ result = NoResult
    /\ NoRules /\ NoValue /\ NoEarlier
    /\ tag = [n \in Nodes |-> "a"]
    /\ style = [n \in Nodes |-> StyleOf(Flex, Red)]

NextParse == ScanChar \/ FinishParse

SpecParse == InitParse /\ [][NextParse]_vars

\* parseQuery is a synchronous loop: while it can take a step it takes one
SpecParseFair == SpecParse /\ WF_vars(NextParse)

-----------------------------------------------------------------------------
(* Rule parsing and matching alone, on rule-block bodies of a few clauses *)

MaxClauses == 3

\* the clauses of a rule-block body
ClauseTexts ==
    { <<"d", ":", "f">>,
      <<"d", ":", "k">>,
      <<"c", ":", "r", "e", "d">>,
      <<" ", "c", " ", ":", " ", "#", "F", "0", "0", " ">>,
      <<"x", ":", "y">>,
      <<"d">>,
      <<"d", ":">> }

\* the bodies of n clauses, each clause but the first after a semicolon
RECURSIVE BodiesOf(_)
BodiesOf(n) ==
    IF n = 0 THEN { <<>> }
    ELSE IF n = 1 THEN ClauseTexts
    ELSE { b \o <<";">> \o c : b \in BodiesOf(n - 1), c \in ClauseTexts }

\* bodies of the test suite's edge cases, and clauses with a second colon,
\* without a property, and with the property __proto__
DisplayFlexSpaced == <<"d", "i", "s", "p", "l", "a", "y", ":", " ", "f", "l", "e", "x">>

SampleRuleTexts ==
    { <<" ">>,
      DisplayFlexSpaced,
      DisplayFlexSpaced \o <<";", ";", ";">>,
      <<" ">> \o DisplayFlexSpaced \o <<";", ";", " ">>,
      <<"x", ":", "y", ":", "z">>,
      <<":", "f">>,
      ProtoKey \o <<":", "f">>,
      <<"d", ":", "f", ";">> \o ProtoKey \o <<":", "f">> }

RuleTexts == UNION { BodiesOf(n) : n \in 0..MaxClauses } \cup SampleRuleTexts

\* a document with every combination of display and colour among its elements
RuleDom ==
    [tag   |-> [n \in Nodes |-> "a"],
     style |-> [n \in Nodes |->
                  StyleOf(IF n \in {1, 2} THEN Flex ELSE Block,
                          IF n % 2 = 1 THEN Red ELSE Blue)]]

InitRules ==
    /\ pc = "parseCSSRules"
    /\ cssText \in RuleTexts
    /\ target \in Elements
    /\ cssRules = <<>> /\ matched = "none"
    /\ query = <<>> /\ root = 0 /\ findAll = FALSE
    /\ parts = <<>> /\ i = 0 /\ currentSelector = <<>> /\ inRules = FALSE
    /\ currentRules = <<>> /\ braceDepth = 0 /\ inQuotes = FALSE
    /\ quoteChar = ""
    /\ partIndex = 0 /\ currentElements = <<>>
    /\ previousFilterSelectors = <<>> /\ result = NoResult
    /\ tag = RuleDom.tag /\ style = RuleDom.style
    /\ NoValue /\ NoEarlier

NextRules == ParseRules \/ MatchRules

SpecRules == InitRules /\ [][NextRules]_vars

-----------------------------------------------------------------------------
(* Value normalisation alone: on every short text over an alphabet that     *)
(* spells a colour name, hex colours and inner white space, and on samples  *)
(* of every form the function recognises                                    *)

MaxValueLen == 4

ValueAlphabet == {"#", "a", "0", " ", "r", "e", "d"}

RECURSIVE ValuesUpTo(_)
ValuesUpTo(n) ==
    IF n = 0 THEN { <<>> }
    ELSE ValuesUpTo(n - 1)
         \cup { Append(t, c) : t \in { u \in ValuesUpTo(n - 1) : Len(u) = n - 1 },
                               c \in ValueAlphabet }

\* the text of a character sequence written with white space between, before
\* and after its characters as the flags say
Spaced(s, inner, outer) ==
    LET body == IF inner
                THEN Flatten([k \in 1..Len(s) |->
                                 IF s[k] = "," THEN <<",", " ">> ELSE <<s[k]>>])
                ELSE s
    IN  IF outer THEN <<" ">> \o body \o <<"\t">> ELSE body

UpperText(s) == [k \in 1..Len(s) |-> ToUpperChar(s[k])]

\* the channel values of the sampled colours
ChannelValues == {0, 128, 255}

HexByte(n) == <<HexDigits[(n \div 16) + 1], HexDigits[(n % 16) + 1]>>

\* the hex forms of a colour: six digits, and three when every channel
\* doubles a digit, in either letter case
HexForms(r, g, b) ==
    LET six   == <<"#">> \o HexByte(r) \o HexByte(g) \o HexByte(b)
        three == <<"#", HexByte(r)[1], HexByte(g)[1], HexByte(b)[1]>>
        short == IF \A n \in {r, g, b} : HexByte(n)[1] = HexByte(n)[2]
                 THEN {three} ELSE {}
    IN  UNION { {h, UpperText(h)} : h \in {six} \cup short }

\* the rgb(...) forms of a colour, with and without spaces after the commas
RgbForms(r, g, b) ==
    { Spaced(RgbText(DecimalDigits(r), DecimalDigits(g), DecimalDigits(b)),
             inner, FALSE) : inner \in BOOLEAN }

\* the colour keywords of CSS that name a sampled colour, with their channels
ColourKeywords ==
    { [name |-> <<"b", "l", "a", "c", "k">>, r |-> 0, g |-> 0, b |-> 0],
      [name |-> <<"w", "h", "i", "t", "e">>, r |-> 255, g |-> 255, b |-> 255],
      [name |-> <<"r", "e", "d">>, r |-> 255, g |-> 0, b |-> 0],
      [name |-> <<"g", "r", "e", "e", "n">>, r |-> 0, g |-> 128, b |-> 0],
      [name |-> <<"b", "l", "u", "e">>, r |-> 0, g |-> 0, b |-> 255],
      [name |-> <<"y", "e", "l", "l", "o", "w">>, r |-> 255, g |-> 255, b |-> 0],
      [name |-> <<"c", "y", "a", "n">>, r |-> 0, g |-> 255, b |-> 255],
      [name |-> <<"m", "a", "g", "e", "n", "t", "a">>,
       r |-> 255, g |-> 0, b |-> 255],
      [name |-> <<"g", "r", "a", "y">>, r |-> 128, g |-> 128, b |-> 128],
      [name |-> <<"g", "r", "e", "y">>, r |-> 128, g |-> 128, b |-> 128] }

KeywordForms(r, g, b) ==
    UNION { {k.name, UpperText(k.name)} :
              k \in { c \in ColourKeywords : c.r = r /\ c.g = g /\ c.b = b } }

\* every sampled way of writing a colour, also with white space around it
ColourForms(r, g, b) ==
    LET plain == HexForms(r, g, b) \cup RgbForms(r, g, b)
                 \cup KeywordForms(r, g, b)
    IN  plain \cup { Spaced(f, FALSE, TRUE) : f \in plain }

\* the ways of writing the transparent colour
TransparentForms ==
    { <<"t", "r", "a", "n", "s", "p", "a", "r", "e", "n", "t">>,
      <<"r", "g", "b", "a", "(", "0", ",", "0", ",", "0", ",", "0", ")">>,
      <<"r", "g", "b", "a", "(", "0", ",", " ", "0", ",", " ", "0", ",", " ",
        "0", ")">> }

\* the values written out in full: colours of the test suite and the README,
\* and texts the short ones cannot spell
SampleValues ==
    { <<" ", "F", "L", "E", "X", " ">>,
      <<"1", "0", "p", "x">>,
      <<"R", "e", "d">>,
      <<"h", "s", "l", "(", "0", ",", " ", "1", "0", "0", "%", ",", " ",
        "5", "0", "%", ")">>,
      <<"h", "s", "l", " ", "(", "0", ",", "1", "0", "0", "%", ",",
        "5", "0", "%", ")">>,
      <<"x", "h", "s", "l", "(", "1", "2", "0", ",", "1", "0", "0", "%", ",",
        "2", "5", ".", "5", "%", ")", "y">>,
      <<"#", "a", "b", "c", "d">>,
      <<"#", "a", "b", "c", "d", "e">>,
      <<"#", " ", "f", " ", "f", " ", "f">>,
      <<"c", "o", "n", "s", "t", "r", "u", "c", "t", "o", "r">>,
      <<"c", "o", "n", " ", "s", "t", "r", "u", "c", "t", "o", "r">>,
      <<"_", "_", "P", "R", "O", "T", "O", "_", "_">> }

ValueTexts ==
    ValuesUpTo(MaxValueLen)
    \cup SampleValues
    \cup TransparentForms
    \cup UNION { ColourForms(r, g, b) :
                   r \in ChannelValues, g \in ChannelValues, b \in ChannelValues }

InitNormalize ==
    /\ pc = "normalizeCSSValue"
    /\ rawValue \in ValueTexts
    /\ normalizedValue = <<>>
    /\ NoRules /\ NoEarlier
    /\ query = <<>> /\ root = 0 /\ findAll = FALSE
    /\ parts = <<>> /\ i = 0 /\ currentSelector = <<>> /\ inRules = FALSE
    /\ currentRules = <<>> /\ braceDepth = 0 /\ inQuotes = FALSE
    /\ quoteChar = ""
    /\ partIndex = 0 /\ currentElements = <<>>
    /\ previousFilterSelectors = <<>> /\ result = NoResult
    /\ tag = RuleDom.tag /\ style = RuleDom.style

NextNormalize == Normalize \/ NormalizeAgain

SpecNormalize == InitNormalize /\ [][NextNormalize]_vars

-----------------------------------------------------------------------------
(* Calls one after another on one document: the caller keeps what a call    *)
(* returned or threw and calls again                                        *)

\* the queries the caller makes
CallQueries ==
    { <<>>, <<"a">>, <<"!">>,
      Block1(<<"a">>, <<>>, <<>>),
      Block1(<<"a">>, <<>>, DisplayFlex),
      Block1(<<"a">>, <<" ">>, DisplayFlex),
      Block1(<<"a">>, <<>>, DisplayFlex) \o Block1(<<"a">>, <<>>, ColorRed),
      Block1(<<"a">>, <<>>, DisplayFlex) \o <<"a">> }

\* the caller keeps the outcome of the call; the function's locals are gone,
\* and whatever they held is what a later call must not see
KeepResult ==
    /\ pc = "returned"
    /\ earlier' = <<[query |-> query, root |-> root, findAll |-> findAll,
                     result |-> result]>>
    /\ pc' = "idle"
    /\ UNCHANGED <<callVars, domVars, scanVars, evalVars, ruleVars, normVars>>

InitCalls ==
    /\ IdleCall
    /\ tag = RuleDom.tag /\ style = RuleDom.style

NextCalls ==
    \/ \E q \in CallQueries, r \in Roots : Call(q, r, FALSE)
    \/ \E q \in CallQueries, r \in Roots : Call(q, r, TRUE)
    \/ EvalPart
    \/ Return
    \/ KeepResult

SpecCalls == InitCalls /\ [][NextCalls]_vars

-----------------------------------------------------------------------------
(* The claims *)

Range(s) == { s[k] : k \in 1..Len(s) }

\* the node satisfies the rule block of the given body
Satisfies(m, body) == ElementMatchesRules(m, ParseCSSRules(body))

\* the node matches the selector of a segment, an empty one standing for '*'
MatchesSegment(m, sel) == sel = <<>> \/ Matches(m, sel)

\* the number of space characters (U+0020) that end the text
RECURSIVE TrailingSpaces(_)
TrailingSpaces(text) ==
    IF text # <<>> /\ text[Len(text)] = " "
    THEN 1 + TrailingSpaces(SliceOffLast(text))
    ELSE 0

\* the relationship and the selector the text before a '{' stands for, by the
\* number of its trailing spaces
RelationshipBySpaces(text) ==
    IF EndsWith(Trim(text), ">") THEN Child
    ELSE IF TrailingSpaces(text) = 1 THEN Descendant
    ELSE Filter

SelectorBefore(text) ==
    IF EndsWith(Trim(text), ">") THEN Trim(SliceOffLast(Trim(text)))
    ELSE Trim(text)

\* a step of parseQuery that opens a rule block
OpensBlock == pc = "scan" /\ ~inRules /\ inRules'

\* C1 (as the specification states it): whenever parseQuery opens a rule
\* block, the segment it stores has the relationship Child when the text
\* accumulated before the '{', trimmed, ends with '>', Descendant when that
\* text ends with exactly one space, Filter otherwise, and the trimmed text
\* (without the '>') as its selector.
C1_RelationshipBySpaces ==
    [][OpensBlock =>
         parts' = Append(parts,
                         RuleSegment(SelectorBefore(currentSelector),
                                     RelationshipBySpaces(currentSelector),
                                     <<>>))]_vars

\* the query is one rule segment of the given relationship
SingleSegment(rel) ==
    /\ Len(parts) = 1
    /\ parts[1].type = "selector-with-rules"
    /\ parts[1].relationship = rel

\* C2: a query of a single Filter segment S{rules}, evaluated for all matches
\* from a root, returns exactly the descendants of the root that match S (any
\* element when S is empty) and satisfy the rules, in document order.
C2_SingleFilter ==
    (pc = "returned" /\ findAll /\ SingleSegment(Filter)) =>
        result = [kind  |-> "array",
                  nodes |-> SelectSeq(DocumentOrder,
                      LAMBDA m : /\ IsInside(m, root)
                                 /\ MatchesSegment(m, parts[1].selector)
                                 /\ Satisfies(m, parts[1].rules))]

\* C2's case: a Filter segment with a selector returned something, left out an
\* element that matches the selector and left out one that satisfies the rules
C2_Witness ==
    /\ pc = "returned" /\ findAll /\ SingleSegment(Filter)
    /\ parts[1].selector # <<>>
    /\ result.nodes # <<>>
    /\ \E m \in Elements : /\ IsInside(m, root)
                           /\ Matches(m, parts[1].selector)
                           /\ ~Satisfies(m, parts[1].rules)
                           /\ m \notin Range(result.nodes)
    /\ \E m \in Elements : /\ IsInside(m, root)
                           /\ ~Matches(m, parts[1].selector)
                           /\ Satisfies(m, parts[1].rules)
                           /\ m \notin Range(result.nodes)

\* a step of executeQuery that evaluates a rule segment of the given
\* relationship
EvaluatesSegment(rel) ==
    /\ pc = "loop"
    /\ partIndex < Len(parts)
    /\ partIndex' = partIndex + 1
    /\ parts[partIndex + 1].type = "selector-with-rules"
    /\ parts[partIndex + 1].relationship = rel

\* C3: a Descendant segment 'S {rules}' yields, for each node N of the current
\* set, the elements that satisfy the rules and are strict descendants of an
\* element matching S below N (strict descendants of N when S is empty), and
\* nothing else: an element matching S is yielded only as a strict descendant
\* of another match.
C3_Descendant ==
    [][EvaluatesSegment(Descendant) =>
         Range(currentElements') =
            { m \in Elements :
                /\ Satisfies(m, parts[partIndex + 1].rules)
                /\ \E k \in 1..Len(currentElements) :
                      IF parts[partIndex + 1].selector = <<>>
                      THEN IsInside(m, currentElements[k])
                      ELSE \E a \in Elements :
                              /\ IsInside(a, currentElements[k])
                              /\ Matches(a, parts[partIndex + 1].selector)
                              /\ IsInside(m, a) }]_vars

\* C3's case: a Descendant segment with a selector, evaluated from the root,
\* yielded something but not an element that matches the selector and
\* satisfies the rules
C3_Witness ==
    /\ pc = "loop" /\ partIndex = 1
    /\ parts[1].type = "selector-with-rules"
    /\ parts[1].relationship = Descendant
    /\ parts[1].selector # <<>>
    /\ currentElements # <<>>
    /\ \E m \in Elements : /\ IsInside(m, root)
                           /\ Matches(m, parts[1].selector)
                           /\ Satisfies(m, parts[1].rules)
                           /\ m \notin Range(currentElements)

\* C4: a Child segment 'S>{rules}' yields, for each node N of the current set,
\* the elements that satisfy the rules and are direct children of an element
\* matching S below N (direct children of N when S is empty), and nothing
\* deeper.
C4_Child ==
    [][EvaluatesSegment(Child) =>
         Range(currentElements') =
            { m \in Elements :
                /\ Satisfies(m, parts[partIndex + 1].rules)
                /\ \E k \in 1..Len(currentElements) :
                      IF parts[partIndex + 1].selector = <<>>
                      THEN ParentElement(m) = currentElements[k]
                      ELSE \E a \in Elements :
                              /\ IsInside(a, currentElements[k])
                              /\ Matches(a, parts[partIndex + 1].selector)
                              /\ ParentElement(m) = a }]_vars

\* C4's case: P > C > G all satisfy the rules, P alone matches the selector;
\* the Child segment evaluated from the document yielded C and not G
C4_Witness ==
    /\ pc = "loop" /\ partIndex = 1
    /\ parts[1].type = "selector-with-rules"
    /\ parts[1].relationship = Child
    /\ parts[1].selector # <<>>
    /\ root = 0
    /\ \E p \in Elements, c \in Elements, g \in Elements :
          /\ Matches(p, parts[1].selector)
          /\ ParentElement(c) = p /\ ParentElement(g) = c
          /\ ~Matches(c, parts[1].selector)
          /\ Satisfies(p, parts[1].rules)
          /\ Satisfies(c, parts[1].rules)
          /\ Satisfies(g, parts[1].rules)
          /\ c \in Range(currentElements)
          /\ g \notin Range(currentElements)

\* the place of the first occurrence of x in s
FirstOccurrence(s, x) ==
    CHOOSE k \in 1..Len(s) : s[k] = x /\ \A j \in 1..(k - 1) : s[j] # x

\* C5: the sequence querySelectorAllWithCssRules returns holds no node twice,
\* holds the nodes of the last segment's output, and has them in the order of
\* their first occurrence there.
C5_NoDuplicates ==
    (pc = "returned" /\ result.kind = "array") =>
        /\ \A a, b \in 1..Len(result.nodes) :
              a # b => result.nodes[a] # result.nodes[b]
        /\ Range(result.nodes) = Range(currentElements)
        /\ \A a, b \in 1..Len(result.nodes) :
              a < b => FirstOccurrence(currentElements, result.nodes[a])
                       < FirstOccurrence(currentElements, result.nodes[b])

\* C5's case: the last segment's output held a node more than once and two
\* nodes or more were returned
C5_Witness ==
    /\ pc = "returned" /\ result.kind = "array"
    /\ Len(currentElements) > Len(result.nodes)
    /\ Len(result.nodes) >= 2

\* C6: querySelectorWithCssRules returns the first element of the sequence
\* querySelectorAllWithCssRules returns for the same query and root, and null
\* exactly when that sequence is empty; querySelectorAllWithCssRules returns
\* an array, empty when nothing matches; a call that throws throws in both.
C6_FirstOfAll ==
    pc = "returned" =>
        LET all == ExecuteQuery(query, root, TRUE)
        IN  IF result.kind \in {"SyntaxError", "TypeError"}
            THEN all = result
            ELSE /\ all.kind = "array"
                 /\ findAll => result = all
                 /\ ~findAll =>
                      IF all.nodes = <<>>
                      THEN result = [kind |-> "null", nodes |-> <<>>]
                      ELSE result = [kind  |-> "element",
                                     nodes |-> <<all.nodes[1]>>]

\* C6's case: querySelectorWithCssRules returned an element for a query and a
\* root for which querySelectorAllWithCssRules returns two nodes or more
C6_Witness ==
    /\ pc = "returned" /\ ~findAll
    /\ result.kind = "element"
    /\ Len(ExecuteQuery(query, root, TRUE).nodes) >= 2

\* the query has no rule block
NoRuleBlock(q) == \A k \in 1..Len(q) : q[k] # "{"

\* what the host's own querySelectorAll does with the text
HostQuery(r, sel) ==
    IF ValidSelector(sel)
    THEN [kind |-> "array", nodes |-> QuerySelectorAll(r, sel)]
    ELSE Thrown("SyntaxError")

\* C7: for every query without a rule block,
\* querySelectorAllWithCssRules(query, root) does what the host's
\* root.querySelectorAll(query) does.
C7_AsHostQuery ==
    (pc = "returned" /\ findAll /\ NoRuleBlock(query)) =>
        result = HostQuery(root, query)

\* C7 apart from the empty query: for every query without a rule block that is
\* not empty once trimmed, querySelectorAllWithCssRules(query, root) returns
\* the nodes of the host's root.querySelectorAll(query) in the same order, and
\* throws where the host rejects the selector.
C7_NonEmptyAsHostQuery ==
    (pc = "returned" /\ findAll /\ NoRuleBlock(query) /\ Trim(query) # <<>>) =>
        result = HostQuery(root, query)

\* C7's case: a plain selector with white space around it returned two nodes
\* or more
C7_Witness ==
    /\ pc = "returned" /\ findAll /\ NoRuleBlock(query)
    /\ Trim(query) # <<>> /\ Trim(query) # query
    /\ Len(result.nodes) >= 2

\* the query is a chain of two Filter segments, each with a selector
TwoFilters ==
    /\ Len(parts) = 2
    /\ \A k \in 1..2 : /\ parts[k].type = "selector-with-rules"
                       /\ parts[k].relationship = Filter
                       /\ parts[k].selector # <<>>

\* the elements below the root that survive the first segment of the chain
Survivors ==
    { n \in Elements : /\ IsInside(n, root)
                       /\ Matches(n, parts[1].selector)
                       /\ Satisfies(n, parts[1].rules) }

\* the elements that match the second segment and satisfy its rules
Labels ==
    { n \in Elements : /\ Matches(n, parts[2].selector)
                       /\ Satisfies(n, parts[2].rules) }

\* an element strictly between the two matches the first segment's selector
ClaimedBetween(label, item) ==
    \E a \in Elements : /\ IsInside(label, a)
                        /\ IsInside(a, item)
                        /\ Matches(a, parts[1].selector)

\* C8 (as the specification states it): in a chain of two Filter segments,
\* every element that matches the second segment, satisfies its rules and lies
\* anywhere inside an element that survived the first segment is returned.
C8_EveryLabelInside ==
    (pc = "returned" /\ findAll /\ TwoFilters) =>
        \A label \in Labels :
            (\E item \in Survivors : IsInside(label, item))
                => label \in Range(result.nodes)

\* C8 (amended): in a chain of two Filter segments, the elements returned are
\* those that match the second segment, satisfy its rules and lie inside an
\* element that survived the first segment with no element strictly between
\* the two matching the first segment's selector, whether or not that element
\* passed the first segment's rules.
C8_LabelNotUnderNestedItem ==
    (pc = "returned" /\ findAll /\ TwoFilters) =>
        /\ result.kind = "array"
        /\ Range(result.nodes) =
              { label \in Labels :
                  \E item \in Survivors : /\ IsInside(label, item)
                                          /\ ~ClaimedBetween(label, item) }

\* C8's case: a label two levels below a surviving item, with an element
\* between them that does not match the first selector, was returned
C8_Witness ==
    /\ pc = "returned" /\ findAll /\ TwoFilters
    /\ \E label \in Range(result.nodes), item \in Survivors :
          /\ IsInside(label, item)
          /\ ParentElement(label) # item
          /\ ~ClaimedBetween(label, item)

\* the node's resolved value of the property
ResolvedValue(n, property) ==
    IF property \in KnownProperties THEN style[n][property] ELSE <<>>

\* C9: elementMatchesRules(node, rules) is true if and only if every pair of
\* the mapping has normalize(expected) = normalize(the node's resolved value
\* of the property); it is true of the empty mapping, and false otherwise.
C9_AllPairsEqual ==
    pc = "matched" =>
        /\ matched \in {"true", "false"}
        /\ matched = "true" <=>
              \A k \in 1..Len(cssRules) :
                  NormalizeCSSValue(cssRules[k][2])
                  = NormalizeCSSValue(ResolvedValue(target, cssRules[k][1]))
        /\ cssRules = <<>> => matched = "true"

\* C9's case: a mapping of two pairs or more whose first pair matches and
\* which a later pair makes false
C9_Witness ==
    /\ pc = "matched" /\ matched = "false"
    /\ Len(cssRules) >= 2
    /\ NormalizeCSSValue(cssRules[1][2])
       = NormalizeCSSValue(ResolvedValue(target, cssRules[1][1]))

\* the clauses of a body, and a body of the clauses
Clauses(body) == Split(body, ";")

RECURSIVE JoinClauses(_)
JoinClauses(cs) ==
    IF cs = <<>> THEN <<>>
    ELSE IF Len(cs) = 1 THEN cs[1]
    ELSE cs[1] \o <<";">> \o JoinClauses(Tail(cs))

\* the orders in which n clauses can be written
ClauseOrders ==
    [n \in 1..(MaxClauses + 1) |->
        { f \in [1..n -> 1..n] : \A a, b \in 1..n : a # b => f[a] # f[b] }]

\* the body of the clauses cs written in the order f
Reordered(cs, f) == JoinClauses([k \in 1..Len(cs) |-> cs[f[k]]])

\* the property and the value of a clause, and whether it has both
ClauseProperty(clause) ==
    Trim(SubSeq(clause, 1, IndexOf(clause, ":") - 1))

ClauseValue(clause) ==
    Trim(SubSeq(clause, IndexOf(clause, ":") + 1, Len(clause)))

ClauseKept(clause) ==
    /\ IndexOf(clause, ":") # 0
    /\ ClauseProperty(clause) # <<>>
    /\ ClauseValue(clause) # <<>>

\* no two of the clauses cs give one property values that normalise
\* differently
NoConflictingClauses(cs) ==
    \A a, b \in 1..Len(cs) :
        (a < b /\ ClauseKept(cs[a]) /\ ClauseKept(cs[b])
         /\ ClauseProperty(cs[a]) = ClauseProperty(cs[b]))
        => NormalizeCSSValue(ClauseValue(cs[a]))
           = NormalizeCSSValue(ClauseValue(cs[b]))

\* the node satisfies the body whatever the order of its clauses cs
SatisfiedInAnyOrder(cs) ==
    \A f \in ClauseOrders[Len(cs)] :
        Satisfies(target, Reordered(cs, f)) <=> matched = "true"

\* C10 (as the specification states it): for every rule-block body and every
\* permutation of its clauses, a node satisfies the permuted body if and only
\* if it satisfies the body.
C10_AnyOrder ==
    pc = "matched" => SatisfiedInAnyOrder(Clauses(cssText))

\* C10 (amended): for every rule-block body in which no two clauses give the
\* same property values that normalise differently, and every permutation of
\* its clauses, a node satisfies the permuted body if and only if it
\* satisfies the body.
C10_AnyOrderWithoutConflict ==
    (pc = "matched" /\ NoConflictingClauses(Clauses(cssText))) =>
        SatisfiedInAnyOrder(Clauses(cssText))

\* C10's case: a body of clauses for two properties or more, one of them
\* given twice, that the node satisfies
C10_Witness ==
    /\ pc = "matched" /\ matched = "true"
    /\ NoConflictingClauses(Clauses(cssText))
    /\ Len(cssRules) >= 2
    /\ Len(Clauses(cssText)) > Len(cssRules)
    /\ \A k \in 1..Len(Clauses(cssText)) : ClauseKept(Clauses(cssText)[k])

\* C11: the hex forms of a colour (three or six digits, either letter case),
\* its rgb(...) forms with and without spaces after the commas and its
\* keyword all normalise to one string, the rgb(...) form without spaces;
\* so do the forms of transparent; and " FLEX " normalises to "flex".
C11_OneCanonicalString ==
    pc = "normalized" =>
        /\ \A r \in ChannelValues, g \in ChannelValues, b \in ChannelValues :
              rawValue \in ColourForms(r, g, b) =>
                /\ normalizedValue = RgbText(DecimalDigits(r), DecimalDigits(g),
                                             DecimalDigits(b))
                /\ \A v \in ColourForms(r, g, b) :
                      NormalizeCSSValue(v) = normalizedValue
        /\ rawValue \in TransparentForms =>
              \A v \in TransparentForms : NormalizeCSSValue(v) = normalizedValue
        /\ rawValue = <<" ", "F", "L", "E", "X", " ">> =>
              normalizedValue = <<"f", "l", "e", "x">>

\* C11's case: "#FF0000" was normalised, to what "red" and "rgb(255, 0, 0)"
\* normalise to
C11_Witness ==
    /\ pc = "normalized"
    /\ rawValue = <<"#", "F", "F", "0", "0", "0", "0">>
    /\ normalizedValue = NormalizeCSSValue(<<"r", "e", "d">>)
    /\ normalizedValue = NormalizeCSSValue(Red)

\* the value is one normalizeCSSValue changes or fails on although it has no
\* white space: it has a capital letter, is a '#' with three to six hex
\* digits, holds an hsl(...) form, is a listed colour name, or is a key
\* namedColors inherits
StillConverted(value) ==
    \/ \E k \in 1..Len(value) : IsIn(value[k], UpperCase)
    \/ IsHexColor(value)
    \/ HslMatch(value).found
    \/ IsNamedColor(value)
    \/ value \in InheritedKeys

Unrecognised(value) ==
    LET text == ToLowerCase(Trim(value))
        hex  == /\ Len(text) \in {4, 7}
                /\ text[1] = "#"
                /\ \A k \in 2..Len(text) : IsIn(text[k], HexDigits)
    IN  /\ ~hex
        /\ ~HslMatch(text).found
        /\ ~IsNamedColor(text)

\* C13: normalizeCSSValue returns a string for every input string and never
\* raises an error, and a value in none of the recognised formats is returned
\* unchanged apart from trimming, lowercasing and the removal of white space.
C13_TotalAndPassThrough ==
    pc \in {"normalized", "thrown"} =>
        /\ pc = "normalized"
        /\ Unrecognised(rawValue) =>
              normalizedValue = RemoveWhiteSpace(ToLowerCase(Trim(rawValue)))

\* the value is a segment as parseQuery builds them
IsSegment(p) ==
    \/ /\ DOMAIN p = {"type", "selector"}
       /\ p.type = "selector"
       /\ p.selector \in Seq(QueryChars)
    \/ /\ DOMAIN p = {"type", "selector", "relationship", "rules"}
       /\ p.type = "selector-with-rules"
       /\ p.selector \in Seq(QueryChars)
       /\ p.relationship \in {Filter, Descendant, Child}
       /\ p.rules \in Seq(QueryChars)

\* while the scan is inside a rule block, the last segment is the one the
\* block's rules go to
BlockHasSegment ==
    pc = "scan" /\ inRules =>
        /\ parts # <<>>
        /\ parts[Len(parts)].type = "selector-with-rules"
        /\ braceDepth >= 1

\* an iteration consumes the one character at the scan position: it goes to
\* the selector text, to the rules text, or it opens or closes a rule block,
\* and a closing block hands its rules to the last segment
ConsumesOne ==
    pc = "scan" /\ pc' = "scan" =>
        /\ i' = i + 1
        /\ i' <= Len(query)
        /\ \/ /\ currentSelector' = Append(currentSelector, query[i'])
              /\ currentRules' = currentRules /\ parts' = parts
           \/ /\ currentRules' = Append(currentRules, query[i'])
              /\ currentSelector' = currentSelector /\ parts' = parts
           \/ /\ query[i'] = "{" /\ ~inRules /\ inRules'
              /\ Len(parts') = Len(parts) + 1
           \/ /\ query[i'] = "}" /\ inRules /\ ~inRules'
              /\ parts # <<>>
              /\ parts' = [parts EXCEPT ![Len(parts)].rules = Trim(currentRules)]

\* parseQuery has returned a sequence of segments, having read every character
ReturnsSegments ==
    /\ pc = "parsed"
    /\ i = Len(query)
    /\ parts = ParseQuery(query)
    /\ \A k \in 1..Len(parts) : IsSegment(parts[k])

\* C14: parseQuery is total. On every input text, whatever its braces, quotes
\* and stray characters, each iteration consumes exactly one character, a rule
\* block that closes always has a last segment to receive its rules, and the
\* scan ends by returning a sequence of segments.
C14_Total ==
    /\ []BlockHasSegment
    /\ [][ConsumesOne]_vars
    /\ <>ReturnsSegments

\* C14's case: a stray '}', a block that closes, and a quote that never
\* closes, parsed to two segments
C14_Witness ==
    /\ pc = "parsed"
    /\ query = <<"}", "{", "}", "'">>
    /\ inQuotes
    /\ parts = <<RuleSegment(<<"}">>, Filter, <<>>), PlainSelector(<<"'">>)>>

\* the locals of parseQuery after its loop has read the first n characters
ScanOf(q, n) == ScanAll(SubSeq(q, 1, n), InitScan)

\* the position of the '{' that opens the rule block the text q ends in
OpenBlockStart(q) ==
    CHOOSE p \in 1..Len(q) :
        /\ ~ScanOf(q, p - 1).inRules
        /\ \A r \in p..Len(q) : ScanOf(q, r).inRules

\* C15 (as the specification states it): when the query ends inside a rule
\* block, that block contributes no segment: the parsed sequence has the
\* segments that were there before the block opened, and no more.
C15_UnterminatedDropped ==
    pc = "parsed" /\ inRules =>
        Len(parts) = Len(ScanOf(query, OpenBlockStart(query) - 1).parts)

\* C15 (amended): when the query ends inside a rule block, the block keeps
\* its segment and loses its rules text: the parsed sequence is the one of
\* the query cut after the block's '{' and closed there by '}', so its last
\* segment has the block's selector and relationship and an empty rules text.
C15_UnterminatedKeptWithoutRules ==
    pc = "parsed" /\ inRules =>
        LET start  == OpenBlockStart(query)
            before == ScanOf(query, start - 1)
        IN  /\ parts = ParseQuery(Append(SubSeq(query, 1, start), "}"))
            /\ parts = Append(before.parts,
                              RuleSegment(SegmentSelector(before.currentSelector),
                                          Relationship(before.currentSelector),
                                          <<>>))

\* C15's case: the text 'a{a' has been parsed, its block still open
C15_Witness ==
    /\ pc = "parsed"
    /\ inRules
    /\ query = <<"a", "{", "a">>
    /\ parts = <<RuleSegment(<<"a">>, Filter, <<>>)>>

\* C16: for the empty query and for a query of white space only, parseQuery
\* yields no segment and nothing is found: querySelectorAllWithCssRules
\* returns an empty array, querySelectorWithCssRules returns null, and the
\* root is not returned.
C16_EmptyQueryFindsNothing ==
    (pc = "returned" /\ Trim(query) = <<>>) =>
        /\ parts = <<>>
        /\ result = IF findAll THEN [kind |-> "array", nodes |-> <<>>]
                               ELSE [kind |-> "null", nodes |-> <<>>]
        /\ root \notin Range(result.nodes)

\* Where a text stands with respect to quotes and rule blocks, by the rules
\* of quoting: outside a rule block a quote opens a quoted stretch, which ends
\* at the next quote of the same kind that no backslash escapes, a backslash
\* escaping the one character after it; outside quotes '{' opens a rule block,
\* which ends at its balancing '}'.
Unquoted == [quoted |-> FALSE, kind |-> "", escaped |-> FALSE, depth |-> 0]

QuotingAfter(st, char) ==
    IF st.depth > 0
    THEN IF char = "{" THEN [st EXCEPT !.depth = st.depth + 1]
         ELSE IF char = "}" THEN [st EXCEPT !.depth = st.depth - 1]
         ELSE st
    ELSE IF st.quoted
    THEN IF st.escaped THEN [st EXCEPT !.escaped = FALSE]
         ELSE IF char = "\\" THEN [st EXCEPT !.escaped = TRUE]
         ELSE IF char = st.kind THEN Unquoted
         ELSE st
    ELSE IF char \in {"\"", "'"} THEN [st EXCEPT !.quoted = TRUE, !.kind = char]
    ELSE IF char = "{" THEN [st EXCEPT !.depth = 1]
    ELSE st

RECURSIVE Quoting(_)
Quoting(text) ==
    IF text = <<>> THEN Unquoted
    ELSE QuotingAfter(Quoting(SliceOffLast(text)), text[Len(text)])

\* C17: outside a rule block a quote suspends the recognition of delimiters
\* until the matching unescaped quote of the same kind: the scan is inside
\* quotes exactly on the quoted stretches of the text, a '{' or '}' read there
\* is kept in the selector text and opens no rule block, and the query
\* [data-value="some{thing}"]{ display: block; } parses to one Filter segment
\* with the selector [data-value="some{thing}"].
C17_QuotesSuspendDelimiters ==
    /\ pc = "scan" =>
          LET now == Quoting(SubSeq(query, 1, i))
          IN  /\ inQuotes = now.quoted
              /\ inRules = (now.depth > 0)
              /\ (i > 0 /\ query[i] \in {"{", "}"}
                    /\ Quoting(SubSeq(query, 1, i - 1)).quoted) =>
                    /\ ~inRules
                    /\ currentSelector # <<>>
                    /\ currentSelector[Len(currentSelector)] = query[i]
    /\ (pc = "parsed" /\ query = BracesInAttribute) =>
          parts = <<RuleSegment(SubSeq(BracesInAttribute, 1, 26), Filter,
                                SubSeq(BracesInAttribute, 29, 43))>>

\* the query is written 'S { rules }': a selector, one space, one rule block
SpaceBeforeBrace ==
    /\ SingleSegment(Descendant)
    /\ parts[1].selector # <<>>
    /\ query = parts[1].selector \o <<" ", "{">> \o parts[1].rules \o <<"}">>

\* the elements below the root that match the selector of the one segment and
\* satisfy its rules, in document order
MatchingAndStyled ==
    SelectSeq(DocumentOrder,
              LAMBDA m : /\ IsInside(m, root)
                         /\ Matches(m, parts[1].selector)
                         /\ Satisfies(m, parts[1].rules))

\* C18: a query written 'S { rules }', with one space before the brace, finds
\* the elements that match S and whose computed style satisfies the rules:
\* querySelectorAllWithCssRules returns them all, querySelectorWithCssRules
\* the first of them.
C18_SpaceBeforeBraceFindsStyled ==
    (pc = "returned" /\ SpaceBeforeBrace) =>
        result = IF findAll
                 THEN [kind |-> "array", nodes |-> MatchingAndStyled]
                 ELSE IF MatchingAndStyled # <<>>
                 THEN [kind |-> "element", nodes |-> <<MatchingAndStyled[1]>>]
                 ELSE [kind |-> "null", nodes |-> <<>>]

\* the call has returned nodes
ReturnedNodes == pc = "returned" /\ result.kind \in {"array", "element"}

\* what is returned for a query of at least one segment lies strictly inside
\* the root, and so does the current set once a segment has been evaluated
InsideRoot ==
    /\ (ReturnedNodes /\ parts # <<>>) =>
          \A n \in Range(result.nodes) : n # root /\ IsInside(n, root)
    /\ (pc = "loop" /\ partIndex >= 1) =>
          \A n \in Range(currentElements) : n # root /\ IsInside(n, root)

\* what a chain of two Filter segments returns are labels inside survivors
LabelsInsideSurvivors ==
    (ReturnedNodes /\ TwoFilters) =>
        \A n \in Range(result.nodes) :
            /\ n \in Labels
            /\ \E item \in Survivors : IsInside(n, item)

\* a segment leaves in the current set only strict descendants of nodes that
\* were in it before
SeededByPrevious ==
    (pc = "loop" /\ partIndex' = partIndex + 1) =>
        \A n \in Range(currentElements') :
            \E k \in 1..Len(currentElements) :
                n # currentElements[k] /\ IsInside(n, currentElements[k])

\* C19: for every query of at least one segment, every returned node is a
\* strict descendant of the root of the call; after each segment every node of
\* the current set is a strict descendant of a node of the current set before
\* that segment; and a chain of two Filter segments returns only elements
\* matching the second segment inside elements that passed the first.
C19_StrictDescendants ==
    /\ [](InsideRoot /\ LabelsInsideSurvivors)
    /\ [][SeededByPrevious]_vars

\* C19's case: from a root that is not the document, a chain of two Filter
\* segments returned a label, and left out a label outside the root
C19_Witness ==
    /\ ReturnedNodes /\ TwoFilters
    /\ root = 1
    /\ result.nodes # <<>>
    /\ \E n \in Labels : ~IsInside(n, root) /\ n \notin Range(result.nodes)

\* the current set is empty after a segment
EmptiedBySegment == pc = "loop" /\ partIndex >= 1 /\ currentElements = <<>>

\* C20: once the current set is empty after a segment it stays empty through
\* every remaining segment, whatever its selector, relationship and rules, and
\* the call returns an empty array (querySelectorAllWithCssRules) or null
\* (querySelectorWithCssRules).
C20_EmptyStaysEmpty ==
    [][EmptiedBySegment =>
         /\ pc' \in {"loop", "returned"}
         /\ currentElements' = <<>>
         /\ pc' = "returned" =>
               result' = IF findAll THEN [kind |-> "array", nodes |-> <<>>]
                                    ELSE [kind |-> "null", nodes |-> <<>>]]_vars

\* C20's case: the first segment left nothing, and the second, whose selector
\* the host would reject, was passed without finding anything
C20_Witness ==
    /\ pc = "returned"
    /\ Len(parts) = 2 /\ partIndex = 2
    /\ parts[2].selector = <<"!">>
    /\ result = [kind |-> "null", nodes |-> <<>>]

\* the call made now has the arguments of the call kept from before
SameCallAsEarlier ==
    /\ earlier # <<>>
    /\ earlier[1].query = query
    /\ earlier[1].root = root
    /\ earlier[1].findAll = findAll

\* what a call returns is a function of its query, its root and the document,
\* and the same as the call before when that had the same arguments
OwnArgumentsOnly ==
    pc = "returned" =>
        /\ result = ExecuteQuery(query, root, findAll)
        /\ SameCallAsEarlier => result = earlier[1].result

\* a call starts from its root alone and with no prior Filter selector
StartsAfresh ==
    (pc = "idle" /\ pc' = "loop") =>
        /\ currentElements' = <<root'>>
        /\ previousFilterSelectors' = <<>>
        /\ partIndex' = 0

\* C21: queries are stateless and deterministic. In any sequence of calls on
\* an unchanged tree, the result of a call depends on its own query and root
\* only; the current set and the list of prior Filter selectors left by a
\* call do not reach the next one; a repeated call returns the same.
C21_Stateless ==
    /\ []OwnArgumentsOnly
    /\ [][StartsAfresh]_vars

\* C21's case: after a call of two Filter segments, which left a selector in
\* the list, a call of one Filter segment returned an element nested in
\* another that matches that selector
C21_Witness ==
    /\ pc = "returned" /\ findAll
    /\ earlier # <<>>
    /\ Len(ParseQuery(earlier[1].query)) = 2
    /\ ParseQuery(earlier[1].query)[2].type = "selector-with-rules"
    /\ SingleSegment(Filter)
    /\ \E n \in Range(result.nodes), a \in Elements :
          /\ IsInside(n, a)
          /\ IsInside(a, root)
          /\ Matches(a, ParseQuery(earlier[1].query)[1].selector)

\* the segment about to be evaluated hands the host a selector it rejects: its
\* own selector, when it has one and there is an element to search from
HostRejects ==
    /\ pc = "loop"
    /\ partIndex < Len(parts)
    /\ currentElements # <<>>
    /\ parts[partIndex + 1].selector # <<>>
    /\ ~ValidSelector(parts[partIndex + 1].selector)

\* a call that ended with the host's error ended in the segment that handed
\* the host the rejected selector, and returned nothing
ErrorIsTheHosts ==
    (pc = "returned" /\ result.kind = "SyntaxError") =>
        /\ result.nodes = <<>>
        /\ partIndex < Len(parts)
        /\ currentElements # <<>>
        /\ ~ValidSelector(parts[partIndex + 1].selector)

\* C22: a failure of the host propagates unmodified. When the host rejects
\* the selector a segment hands it, the call ends there with the host's error
\* and returns no result; nothing validates a selector before the host is
\* asked, catches the error or turns it into an empty result.
C22_HostErrorPropagates ==
    /\ []ErrorIsTheHosts
    /\ [][HostRejects => (pc' = "returned" /\ result' = Thrown("SyntaxError"))]_vars

\* C22's case: the first segment found elements, the second handed the host a
\* selector it rejects, and the call ended with the host's error
C22_Witness ==
    /\ pc = "returned"
    /\ result = Thrown("SyntaxError")
    /\ Len(parts) = 2 /\ partIndex = 1
    /\ parts[1].type = "selector-with-rules"
    /\ currentElements # <<>>

\* the selectors of the Filter segments among the first k segments that have
\* a selector, in their order
RECURSIVE PriorFilterSelectors(_)
PriorFilterSelectors(k) ==
    IF k = 0 THEN <<>>
    ELSE IF /\ parts[k].type = "selector-with-rules"
            /\ parts[k].relationship = Filter
            /\ parts[k].selector # <<>>
         THEN Append(PriorFilterSelectors(k - 1), parts[k].selector)
         ELSE PriorFilterSelectors(k - 1)

\* an element strictly between the node and the candidate matches one of the
\* selectors
AncestorBetweenMatches(candidate, node, selectors) ==
    \E a \in Elements :
        /\ IsInside(candidate, a)
        /\ IsInside(a, node)
        /\ \E k \in 1..Len(selectors) : Matches(a, selectors[k])

\* what a Filter segment keeps for one node of the current set
FilterKeeps(node, k) ==
    SelectSeq(DocumentOrder,
        LAMBDA c : /\ IsInside(c, node)
                   /\ MatchesSegment(c, parts[k].selector)
                   /\ ~AncestorBetweenMatches(c, node, PriorFilterSelectors(k - 1))
                   /\ Satisfies(c, parts[k].rules))

\* a step of executeQuery that evaluates a segment which is not a Filter
EvaluatesOther ==
    /\ pc = "loop"
    /\ partIndex < Len(parts)
    /\ partIndex' = partIndex + 1
    /\ ~(/\ parts[partIndex + 1].type = "selector-with-rules"
         /\ parts[partIndex + 1].relationship = Filter)

\* C23: a Filter segment, for a node N of the current set, excludes a
\* candidate exactly when an element strictly between N and the candidate
\* matches the selector of an earlier Filter segment of the evaluation that
\* has a selector, whether or not that element passed the earlier rules. The
\* list holds the selectors of the Filter segments already processed and of
\* no other segment, and Descendant, Child and plain segments do not exclude.
C23_ExclusionExact ==
    /\ [](pc = "loop" => previousFilterSelectors = PriorFilterSelectors(partIndex))
    /\ [][EvaluatesSegment(Filter) =>
            currentElements' =
               Flatten([k \in 1..Len(currentElements) |->
                           FilterKeeps(currentElements[k], partIndex + 1)])]_vars
    /\ [][EvaluatesOther =>
            currentElements' =
               NextResults(currentElements, parts[partIndex + 1], <<>>)]_vars

\* C23's case: the second Filter segment has left out a label inside a
\* survivor, because an element between them matches the first selector
\* without having passed the first rules
C23_Witness ==
    /\ pc = "loop" /\ partIndex = 2
    /\ TwoFilters
    /\ previousFilterSelectors # <<>>
    /\ \E c \in Labels, item \in Survivors, a \in Elements :
          /\ IsInside(c, a)
          /\ IsInside(a, item)
          /\ Matches(a, parts[1].selector)
          /\ ~Satisfies(a, parts[1].rules)
          /\ c \notin Range(currentElements)

\* C24: the cue of a Descendant block is exactly one trailing space character
\* (U+0020). When the text before '{', trimmed, does not end with '>', the
\* block is Descendant if and only if that text ends with exactly one space
\* character; one tab or one newline there, and no space, is not the cue.
C24_OneSpaceCharacter ==
    [][(OpensBlock /\ ~EndsWith(Trim(currentSelector), ">")) =>
          (parts'[Len(parts')].relationship = Descendant
              <=> TrailingSpaces(currentSelector) = 1)]_vars

\* the text is '#' followed by hex digits only
HashAndHexDigits(text) ==
    /\ Len(text) >= 2
    /\ text[1] = "#"
    /\ \A k \in 2..Len(text) : IsIn(text[k], HexDigits)

\* the number a hex digit, or two of them, stand for
HexDigitValue(c) == PosIn(c, HexDigits) - 1
HexPairValue(c1, c2) == 16 * HexDigitValue(c1) + HexDigitValue(c2)

\* 'rgb(r,g,b)' with the components in decimal
RgbOf(r, g, b) == RgbText(DecimalDigits(r), DecimalDigits(g), DecimalDigits(b))

\* C25: hex conversion applies to '#' followed by exactly three or exactly six
\* hex digits and to nothing else. Three digits are doubled each, six are
\* taken in pairs, and the result is 'rgb(r,g,b)' with decimal components in
\* 0..255; '#' followed by four or five hex digits is not converted and comes
\* back as it is, trimmed and lowercased.
C25_HexThreeOrSix ==
    LET text == ToLowerCase(Trim(rawValue))
    IN  (pc \in {"normalized", "thrown"} /\ HashAndHexDigits(text)) =>
            /\ pc = "normalized"
            /\ Len(text) = 4 =>
                  normalizedValue = RgbOf(HexPairValue(text[2], text[2]),
                                          HexPairValue(text[3], text[3]),
                                          HexPairValue(text[4], text[4]))
            /\ Len(text) = 7 =>
                  normalizedValue = RgbOf(HexPairValue(text[2], text[3]),
                                          HexPairValue(text[4], text[5]),
                                          HexPairValue(text[6], text[7]))
            /\ Len(text) \in {5, 6} => normalizedValue = text

\* the places of the clauses of the body that have a ':' and, around the first
\* ':', a property and a value that are not empty once trimmed
KeptClauses(body) ==
    { k \in 1..Len(Clauses(body)) : ClauseKept(Clauses(body)[k]) }

\* C26: parseCSSRules splits the body on ';' and each clause on its first ':'
\* (a later ':' stays in the value). The mapping has one entry for each
\* property of the clauses that have a ':' and a property and a value not
\* empty once trimmed, with the value of such a clause; every other clause is
\* dropped without error. So ' ' gives the empty mapping and
\* 'display: flex;;;' the mapping of 'display: flex'.
C26_SplitOnFirstColon ==
    /\ pc \in {"elementMatchesRules", "matched"} =>
          LET cs == Clauses(cssText)
          IN  /\ { cssRules[j][1] : j \in 1..Len(cssRules) }
                    = { ClauseProperty(cs[k]) : k \in KeptClauses(cssText) }
              /\ \A j \in 1..Len(cssRules) :
                    \E k \in KeptClauses(cssText) :
                        /\ cssRules[j][1] = ClauseProperty(cs[k])
                        /\ cssRules[j][2] = ClauseValue(cs[k])
              /\ \A a, b \in 1..Len(cssRules) :
                    a # b => cssRules[a][1] # cssRules[b][1]
    /\ ParseCSSRules(<<" ">>) = <<>>
    /\ ParseCSSRules(DisplayFlexSpaced \o <<";", ";", ";">>)
          = ParseCSSRules(DisplayFlexSpaced)
    /\ ParseCSSRules(DisplayFlexSpaced)
          = << <<SubSeq(DisplayFlexSpaced, 1, 7), SubSeq(DisplayFlexSpaced, 10, 13)>> >>

\* an iteration of the scan that reads a character inside a rule block
ReadsInBlock == pc = "scan" /\ pc' = "scan" /\ inRules

\* the number of '{' less the number of '}' in the text
RECURSIVE OpenBraces(_)
OpenBraces(text) ==
    IF text = <<>> THEN 0
    ELSE OpenBraces(Tail(text))
         + (IF Head(text) = "{" THEN 1 ELSE IF Head(text) = "}" THEN -1 ELSE 0)

\* C27: rule-block delimiters nest. Inside an open rule block a '{' adds one
\* to the depth and a '}' takes one off; a brace that leaves the depth above
\* zero is kept in the block's rules text; the block closes exactly at the
\* '}' that brings the depth to zero, and then the trimmed text accumulated
\* becomes the rules text of the last segment and the scan is back to
\* accumulating a selector.
C27_BracesNest ==
    /\ [](pc = "scan" /\ inRules => braceDepth = 1 + OpenBraces(currentRules))
    /\ [][ReadsInBlock =>
            LET char  == query[i + 1]
                depth == IF char = "{" THEN braceDepth + 1
                         ELSE IF char = "}" THEN braceDepth - 1
                         ELSE braceDepth
            IN  IF depth = 0
                THEN /\ ~inRules' /\ braceDepth' = 0
                     /\ parts' = [parts EXCEPT ![Len(parts)].rules =
                                                  Trim(currentRules)]
                     /\ currentRules' = <<>>
                     /\ currentSelector' = <<>>
                ELSE /\ inRules' /\ braceDepth' = depth
                     /\ currentRules' = Append(currentRules, char)
                     /\ parts' = parts]_vars

\* C27's case: a block with a nested pair of braces has closed at the second
\* '}', the nested pair kept in its rules text
C27_Witness ==
    /\ pc = "scan" /\ ~inRules
    /\ query = <<"{", "{", "}", "}">> /\ i = 4
    /\ parts = <<RuleSegment(<<>>, Filter, <<"{", "}">>)>>

\* the place in the first n characters of the text after which selector
\* text accumulates: just after the last '}' that closed a rule block, or the
\* start of the text
SelectorTextStart(q, n) ==
    LET closes == { j \in 1..n : ScanOf(q, j - 1).inRules /\ ~ScanOf(q, j).inRules }
    IN  IF closes = {} THEN 1
        ELSE 1 + CHOOSE j \in closes : \A k \in closes : k <= j

\* while the scan runs every segment is a rule segment, and outside a rule
\* block the text read since the last block closed is held as selector text
OnlyRuleSegmentsSoFar ==
    pc = "scan" =>
        /\ \A k \in 1..Len(parts) : parts[k].type = "selector-with-rules"
        /\ ~inRules =>
              currentSelector = SubSeq(query, SelectorTextStart(query, i), i)

\* the text before a rule block goes to that block's segment
TextGoesToNextBlock ==
    OpensBlock =>
        /\ Len(parts') = Len(parts) + 1
        /\ parts'[Len(parts')].type = "selector-with-rules"
        /\ parts'[Len(parts')].selector = SelectorBefore(currentSelector)
        /\ \A k \in 1..Len(parts) : parts'[k] = parts[k]

\* a plain selector is the last segment, and is there exactly when the text
\* after the last closed block is not empty once trimmed
PlainSelectorOnlyLast ==
    pc = "parsed" =>
        LET trailing == IF inRules THEN <<>>
                        ELSE SubSeq(query, SelectorTextStart(query, i), i)
        IN  /\ \A k \in 1..(Len(parts) - 1) :
                  parts[k].type = "selector-with-rules"
            /\ Trim(trailing) # <<>> =>
                  parts # <<>> /\ parts[Len(parts)] = PlainSelector(Trim(trailing))
            /\ Trim(trailing) = <<>> =>
                  \A k \in 1..Len(parts) : parts[k].type = "selector-with-rules"

\* C28: in every sequence parseQuery returns a PlainSelector occurs at most
\* once and only as the last segment. Selector text between two rule blocks
\* is never a segment of its own: it becomes the selector of the following
\* rule segment. The text after the last closed block becomes a PlainSelector
\* only if it is not empty once trimmed.
C28_PlainSelectorOnlyLast ==
    /\ [](OnlyRuleSegmentsSoFar /\ PlainSelectorOnlyLast)
    /\ [][TextGoesToNextBlock]_vars

\* C28's case: text between two rule blocks, parsed to two rule segments, the
\* second with that text as its selector
C28_Witness ==
    /\ pc = "parsed"
    /\ query = <<"{", "}", "a", "{">>
    /\ parts = <<RuleSegment(<<>>, Filter, <<>>), RuleSegment(<<"a">>, Filter, <<>>)>>

\* the number of rule blocks opened in the first n characters of the text
BlocksOpened(q, n) ==
    Cardinality({ j \in 1..n : ~ScanOf(q, j - 1).inRules /\ ScanOf(q, j).inRules })

\* the number of rule segments among the segments
RuleSegments(ps) ==
    Cardinality({ k \in 1..Len(ps) : ps[k].type = "selector-with-rules" })

\* C29: at every step of the scan of parseQuery, inside a rule block the
\* depth is at least 1 and the scan is not inside quotes; outside a rule
\* block the depth is 0 and the rules text accumulated is empty; the scan is
\* inside quotes exactly when a quote character is remembered; and there are
\* as many rule segments as rule blocks opened so far.
C29_ScanInvariants ==
    pc = "scan" =>
        /\ inRules => (braceDepth >= 1 /\ ~inQuotes)
        /\ ~inRules => (braceDepth = 0 /\ currentRules = <<>>)
        /\ inQuotes <=> quoteChar # ""
        /\ inQuotes => quoteChar \in {"\"", "'"}
        /\ RuleSegments(parts) = BlocksOpened(query, i)
        /\ Len(parts) = RuleSegments(parts)

\* C29's case: after a quoted stretch that closed, a rule block is open and a
\* quote character has been read inside it
C29_Witness ==
    /\ pc = "scan" /\ inRules
    /\ query = <<"'", "'", "{", "'">> /\ i = 4
    /\ ~inQuotes /\ quoteChar = ""
    /\ currentRules = <<"'">>
    /\ Len(parts) = 1

\* the sequence without its repeats: the first occurrence of each node, in order
RECURSIVE FirstOccurrences(_)
FirstOccurrences(s) ==
    IF s = <<>> THEN <<>>
    ELSE LET before == FirstOccurrences(SliceOffLast(s))
         IN  IF s[Len(s)] \in Range(before) THEN before
             ELSE Append(before, s[Len(s)])

\* an evaluator that removes the repeats from the current set after every
\* segment: what it gives from segment k on
RECURSIVE RunDeduplicating(_, _, _, _)
RunDeduplicating(k, cur, prev, all) ==
    IF k > Len(parts)
    THEN IF all THEN [kind |-> "array", nodes |-> cur]
         ELSE IF cur # <<>> THEN [kind |-> "element", nodes |-> <<cur[1]>>]
         ELSE [kind |-> "null", nodes |-> <<>>]
    ELSE IF HostThrows(cur, parts[k]) THEN Thrown("SyntaxError")
    ELSE IF RulesThrow(cur, parts[k], prev) THEN Thrown("TypeError")
    ELSE RunDeduplicating(k + 1,
                          FirstOccurrences(NextResults(cur, parts[k], prev)),
                          NextFilterSelectors(parts[k], prev), all)

\* the sequence holds a node more than once
HasRepeats(s) == \E a, b \in 1..Len(s) : a # b /\ s[a] = s[b]

\* C30: removing the repeats once at the end is equivalent to removing them
\* from the current set after every segment: for every query and tree the
\* evaluator that removes them after each segment returns the same sequence,
\* in the same order, as executeQuery, whose current sets in between may
\* hold a node several times.
C30_DeduplicateOnceOrEachTime ==
    pc = "returned" => result = RunDeduplicating(1, <<root>>, <<>>, findAll)

\* C30's case: a query of two segments returned nodes, the current set having
\* held a node twice after the first segment
C30_Witness ==
    /\ pc = "returned" /\ findAll
    /\ Len(parts) = 2 /\ partIndex = 2
    /\ result.nodes # <<>>
    /\ HasRepeats(NextResults(<<root>>, parts[1], <<>>))

====
